---------------------------- MODULE Spec2Model ----------------------------
(***************************************************************************)
(* A model of the AUDIN/UFAM client-side scripts.                          *)
(*                                                                         *)
(*   data loader   (src/unnamed/part_000): loadStats and its cache, the    *)
(*                 page binders, updateElement, the status and progress    *)
(*                 bars, calculateGaugeArc, formatPercent, initDataLoader. *)
(*   audin-core.js (src/dev/assets/js/audin-core.js): the accordion, the   *)
(*                 tabs and the three chart adapters.                      *)
(*                                                                         *)
(* JavaScript numbers are modelled as integers counting tenths (735 is     *)
(* 73.5); JavaScript strings are TLA+ strings (non-ASCII letters of the    *)
(* source's literals are written in ASCII).                                *)
(***************************************************************************)
EXTENDS Integers, Sequences, FiniteSets, TLC

VARIABLES
    \* ---- data loader ----
    path,        \* window.location.pathname
    present,     \* the element ids the page's markup holds
    text,        \* textContent of each element id
    width,       \* style.width of each element id
    gaugeD,      \* the 'd' attribute of #gauge-arc
    serverDoc,   \* what /data/stats.json parses to
    statsData,   \* the global cache (part_000 line 7)
    calls,       \* the invocations of loadStats / of a binder, by slot
    nstarted,    \* how many slots are in use
    ncalls,      \* how many invocations this page load makes at most
    domReady,    \* DOMContentLoaded has been handled
    dispatched,  \* the binders initDataLoader invoked, in order
    netRequests, \* fetch('/data/stats.json') calls issued
    cacheWrites, \* assignments to statsData
    errorLog,    \* console.error calls
    \* ---- calculateGaugeArc called on its own ----
    gaugeIn,     \* the percentage passed
    gaugeOut,    \* the path returned, once called
    \* ---- accordion (audin-core.js) ----
    accCtl,      \* aria-controls of each trigger
    accExpanded, \* aria-expanded of each trigger
    accHidden,   \* whether each panel carries the hidden attribute
    accGroup,    \* the [data-audin-accordion-group] ancestor of each trigger
    accFocus,    \* the trigger that has focus (0: none)
    accLast,     \* the last activation and what it changed
    \* ---- tabs (audin-core.js) ----
    tabN,        \* the number of [role="tab"] elements of the tablist
    tabCtl,      \* aria-controls of each tab
    tabAttrs,    \* aria-selected, the active class and tabindex of each tab
    tabHidden,   \* the hidden property of each tab panel
    tabFocus,    \* the tab that has focus (0: none)
    tabTimers,   \* pending setTimeout callbacks that dispatch 'resize'
    tabLast,     \* the last activation: the event, the tab it hit, the target
    \* ---- chart adapters (audin-core.js) ----
    chartLib,    \* the charting libraries loaded: typeof X !== 'undefined'
    reportCanvas,\* #chart-status and #chart-achados: presence and dataset
    dashCanvases,\* the [data-chart-type] canvases and their dataset
    plotlyEls,   \* the [data-plotly-type] elements and their dataset
    charts,      \* the charts created so far, in order
    chartOut,    \* how each adapter's call ended
    \* ---- page widgets, the state of each held in one record ----
    sidebar,     \* main.js: window width, classes, localStorage
    demoForm,    \* audin-core.js initFormValidation: fields, messages, focus
    filtro,      \* audin-core.js initFiltros: selectors, items, empty message
    hamburger,   \* audin-paint.js initPaintHamburger: sidebar, toggle, backdrop
    paintCharts, \* audin-paint.js initPaintCharts: observers and charts
    counters,    \* audin-core.js initCounters: observers and animations
    \* ---- utilities and page behaviours, each held in one record ----
    debounced,   \* audin-core.js AUDIN.debounce: one wrapped function
    paintData,   \* audin-paint.js initPaintData: PAINT_DATA and the fields
    scrollSpy    \* audin-core.js initScrollSpy: sections, links, scroll position

loaderVars == <<path, present, text, width, gaugeD, serverDoc, statsData, calls,
                nstarted, ncalls, domReady, dispatched, netRequests,
                cacheWrites, errorLog>>

gaugeVars == <<gaugeIn, gaugeOut>>

accVars == <<accCtl, accExpanded, accHidden, accGroup, accFocus, accLast>>

tabVars == <<tabN, tabCtl, tabAttrs, tabHidden, tabFocus, tabTimers, tabLast>>

chartVars == <<chartLib, reportCanvas, dashCanvases, plotlyEls, charts, chartOut>>

widgetVars == <<sidebar, demoForm, filtro, hamburger, paintCharts, counters>>

utilVars == <<debounced, paintData, scrollSpy>>

vars == <<loaderVars, gaugeVars, accVars, tabVars, chartVars, widgetVars,
          utilVars>>

\* What the actions of one component leave alone
notLoader == <<gaugeVars, accVars, tabVars, chartVars, widgetVars,
               utilVars>>
notGauge == <<loaderVars, accVars, tabVars, chartVars, widgetVars,
              utilVars>>
notAcc == <<loaderVars, gaugeVars, tabVars, chartVars, widgetVars,
            utilVars>>
notTab == <<loaderVars, gaugeVars, accVars, chartVars, widgetVars,
            utilVars>>
notChart == <<loaderVars, gaugeVars, accVars, tabVars, widgetVars,
              utilVars>>
coreVars == <<loaderVars, gaugeVars, accVars, tabVars, chartVars>>
notSidebar == <<coreVars, demoForm, filtro, hamburger, paintCharts, counters,
                utilVars>>
notDemoForm == <<coreVars, sidebar, filtro, hamburger, paintCharts, counters,
                 utilVars>>
notFiltro == <<coreVars, sidebar, demoForm, hamburger, paintCharts, counters,
               utilVars>>
notHamburger == <<coreVars, sidebar, demoForm, filtro, paintCharts, counters,
                  utilVars>>
notPaintCharts == <<coreVars, sidebar, demoForm, filtro, hamburger, counters,
                    utilVars>>
notCounters == <<coreVars, sidebar, demoForm, filtro, hamburger, paintCharts,
                 utilVars>>
notDebounced == <<coreVars, widgetVars, paintData, scrollSpy>>
notPaintData == <<coreVars, widgetVars, debounced, scrollSpy>>
notScrollSpy == <<coreVars, widgetVars, debounced, paintData>>

-----------------------------------------------------------------------------
(* Bounds *)

MaxCalls == 3        \* invocations per page load in the concurrency runs
TopBenLen == 2       \* items of top_unidades_beneficios in the full document
TopRecLen == 6       \* items of top_unidades_recomendacoes in the full document
MaxPathDepth == 2    \* segments of the enumerated paths
GaugeMargin == 20    \* how far past [0, 100] the gauge inputs go
AccTriggers == 2     \* accordion triggers in the document
AccPanels == 2       \* accordion panels in the document
MaxTabs == 3         \* tabs of the tablist
MaxTabTimers == 2    \* resize timers pending at once
MaxChartEls == 2     \* [data-chart-type] canvases, [data-plotly-type] elements
WidthMargin == 2     \* window widths tried on each side of the mobile limit
MaxFields == 2       \* [required] fields of the demo form
MaxItems == 2        \* '.audin-relatorio-item' elements of the report list
MaxLinks == 2        \* '.audin-paint__nav-link' elements of the PAINT sidebar
MaxContainers == 2   \* '.audin-paint__chart-container' elements of the scope
MaxPaintInits == 2   \* calls of AUDIN.initPaintCharts on the scope
MaxCounters == 2     \* '[data-count-to]' elements of the scope
MaxCounterInits == 2 \* calls of AUDIN.initCounters on the scope
AnimationFrames == 3 \* frame intervals that make up the animation's duration
MaxFrameSkip == 2    \* frame intervals between two animation frames
MaxDebounceCalls == 3 \* calls of the debounced function
MaxPaintFields == 2  \* '[data-paint-field]' elements of the page
MaxSpyLinks == 2     \* '.audin-relatorio__nav-list a' elements
MaxSpySections == 2  \* elements the links' fragments name
SpyStep == 100       \* pixels between two modelled positions
MaxSpyPos == 300     \* the largest offsetTop and scrollY, in pixels
DebounceStep == 100  \* milliseconds by which the clock advances
DebounceMaxTime == 800 \* the clock's last value, in milliseconds

-----------------------------------------------------------------------------
(* JavaScript values and strings *)

Undef == [t |-> "undef"]
Num(n) == [t |-> "num", v |-> n]
Str(s) == [t |-> "str", v |-> s]

\* String.prototype.includes
Includes(s, sub) ==
    \E i \in 1..(Len(s) - Len(sub) + 1) : SubSeq(s, i, i + Len(sub) - 1) = sub

\* String.prototype.endsWith
EndsWith(s, sub) ==
    /\ Len(s) >= Len(sub)
    /\ SubSeq(s, Len(s) - Len(sub) + 1, Len(s)) = sub

\* String(n) of a non-negative number held in tenths: 735 is "73.5", 120 is "12"
NumToString(n) ==
    IF n % 10 = 0 THEN ToString(n \div 10)
    ELSE ToString(n \div 10) \o "." \o ToString(n % 10)

\* String(v), as the + operator and template literals apply it
ToStr(v) ==
    CASE v.t = "undef" -> "undefined"
      [] v.t = "num" -> NumToString(v.v)
      [] v.t = "str" -> v.v

\* What element.textContent = v stores: the attribute is a nullable DOMString,
\* so undefined converts to null, which stores the empty string.
TextContentOf(v) == IF v.t = "undef" THEN "" ELSE ToStr(v)

\* Three digits of a group after the first, zero padded
Pad3(n) ==
    IF n < 10 THEN "00" \o ToString(n)
    ELSE IF n < 100 THEN "0" \o ToString(n)
    ELSE ToString(n)

\* The integer part in pt-BR: groups of three separated by "."
RECURSIVE GroupPtBR(_)
GroupPtBR(n) ==
    IF n < 1000 THEN ToString(n)
    ELSE GroupPtBR(n \div 1000) \o "." \o Pad3(n % 1000)

\* formatPercent(num): num.toLocaleString('pt-BR', one fraction digit).
\* Reading .toLocaleString of undefined throws a TypeError; a string's
\* toLocaleString returns the string.
FormatPercentThrows(v) == v.t = "undef"

formatPercent(v) ==
    IF v.t = "num"
    THEN GroupPtBR(v.v \div 10) \o "," \o ToString(v.v % 10)
    ELSE v.v


-----------------------------------------------------------------------------
(* calculateGaugeArc *)

\* The documented range of a percentage
PercentMin == 0
PercentMax == 100

\* A flag that is also set at exactly 50
LargeArcFlagFromHalf(v) == IF v.t = "num" /\ v.v >= 500 THEN 1 ELSE 0

\* percentage > 50 ? 1 : 0, on a percentage held in tenths; undefined > 50
\* is false.
LargeArcFlag(v) == IF v.t = "num" /\ v.v > 500 THEN 1 ELSE 0

\* The path `M startX startY A r r 0 largeArcFlag 1 endX endY` as a record.
\* The start point is (cx + r cos pi, cy - r sin pi) = (20, 100); the end
\* point is kept as its angle, endAngle = pi - (percentage / 100) pi, in
\* thousandths of pi (NaN for a percentage that is not a number).
calculateGaugeArc(v) ==
    [ startX   |-> 20,
      startY   |-> 100,
      r        |-> 80,
      largeArc |-> LargeArcFlag(v),
      sweep    |-> 1,
      endNaN   |-> v.t # "num",
      endAngle |-> IF v.t = "num" THEN 1000 - v.v ELSE 0 ]

\* The d attribute the markup ships with
StaticPath ==
    [ startX |-> 20, startY |-> 100, r |-> 80, largeArc |-> 0, sweep |-> 1,
      endNaN |-> FALSE, endAngle |-> 1000 ]

-----------------------------------------------------------------------------
(* The stats document *)

ScalarFields ==
    { "total_relatorios", "total_recomendacoes", "beneficios", "total_unidades",
      "efetividade", "anos_atuacao", "data_atualizacao",
      "atendidas", "perc_atendidas", "baixadas", "perc_baixadas",
      "em_implementacao", "perc_em_implementacao", "pendentes", "perc_pendentes",
      "unidades_com_beneficios", "media_beneficios_unidade",
      "ano_inicio", "ano_fim", "media_rec_ano", "ano_pico", "rec_ano_pico" }

ListFields == { "top_unidades_beneficios", "top_unidades_recomendacoes" }

ItemFields == { "unidade", "total", "percentual" }

\* A document: its scalar fields and its two top-N lists; a field the JSON
\* does not hold reads as undefined.
FullItem(i) ==
    [ f \in ItemFields |->
        CASE f = "unidade" -> Str("U" \o ToString(i))
          [] f = "total" -> Num(10 * (40 - i))
          [] f = "percentual" -> Num(125 - 10 * i) ]

FullList(n) == [ t |-> "list", v |-> [ i \in 1..n |-> FullItem(i) ] ]

FullDoc ==
    [ s |-> [ f \in ScalarFields |->
                CASE f = "data_atualizacao" -> Str("01/11/2026")
                  [] f = "efetividade" -> Num(735)
                  [] f = "perc_atendidas" -> Num(402)
                  [] f = "perc_baixadas" -> Num(333)
                  [] f = "perc_em_implementacao" -> Num(150)
                  [] f = "perc_pendentes" -> Num(115)
                  [] f = "media_beneficios_unidade" -> Num(48)
                  [] f = "media_rec_ano" -> Num(12345)
                  [] f = "ano_inicio" -> Num(20100)
                  [] f = "ano_fim" -> Num(20250)
                  [] f = "ano_pico" -> Num(20190)
                  [] OTHER -> Num(1200) ],
      l |-> [ f \in ListFields |->
                IF f = "top_unidades_beneficios" THEN FullList(TopBenLen)
                ELSE FullList(TopRecLen) ] ]

EmptyDoc ==
    [ s |-> [ f \in ScalarFields |-> Undef ],
      l |-> [ f \in ListFields |-> Undef ] ]

WithoutScalar(d, f) == [ d EXCEPT !.s[f] = Undef ]
WithoutList(d, f) == [ d EXCEPT !.l[f] = Undef ]
WithoutItemField(d, lf, f) == [ d EXCEPT !.l[lf].v[1][f] = Undef ]

\* The documents the server is taken to hold: the full one, the full one
\* less one field, and the empty one.
Docs ==
    {FullDoc, EmptyDoc}
    \cup { WithoutScalar(FullDoc, f) : f \in ScalarFields }
    \cup { WithoutList(FullDoc, f) : f \in ListFields }
    \cup { WithoutItemField(FullDoc, lf, f) : lf \in ListFields, f \in ItemFields }

\* if (stats.top_...) stats.top_....forEach(...): the items iterated
ListAll(d, lf) == IF d.l[lf].t = "undef" THEN << >> ELSE d.l[lf].v

\* if (stats.top_...) stats.top_....slice(0, n).forEach(...)
ListSlice(d, lf, n) ==
    IF d.l[lf].t = "undef" THEN << >>
    ELSE SubSeq(d.l[lf].v, 1, IF Len(d.l[lf].v) < n THEN Len(d.l[lf].v) ELSE n)

-----------------------------------------------------------------------------
(* The statements of the binders *)

\* One DOM statement of a binder, with the values it read from the document:
\*   raw    updateElement(id, a)
\*   pct    updateElement(id, formatPercent(a) + s)
\*   leg    updateElement(id, `${s}${formatPercent(a)}%)`)
\*   cat    updateElement(id, a + s)
\*   per    updateElement(id, `${a} - ${b}`)
\*   bar    el = getElementById(id); if (el) { width = a + '%'; text = b }
\*   gauge  el = getElementById(id); if (el) setAttribute('d', calculateGaugeArc(a))
Op(k, id, a, b, s) == [ k |-> k, id |-> id, a |-> a, b |-> b, s |-> s ]
Raw(id, a) == Op("raw", id, a, Undef, "")
Pct(id, a, s) == Op("pct", id, a, Undef, s)
Leg(id, s, a) == Op("leg", id, a, Undef, s)
Cat(id, a, s) == Op("cat", id, a, Undef, s)
Per(id, a, b) == Op("per", id, a, b, "")
Bar(id, a, b) == Op("bar", id, a, b, "")
Gauge(id, a) == Op("gauge", id, a, Undef, "")

updateStatusBar(d) ==
    << Bar("bar-atendidas", d.s["perc_atendidas"], d.s["atendidas"]),
       Bar("bar-baixadas", d.s["perc_baixadas"], d.s["baixadas"]),
       Bar("bar-implementacao", d.s["perc_em_implementacao"], d.s["em_implementacao"]),
       Bar("bar-pendentes", d.s["perc_pendentes"], d.s["pendentes"]),
       Leg("legend-atendidas", "Atendidas (", d.s["perc_atendidas"]),
       Leg("legend-baixadas", "Baixadas (", d.s["perc_baixadas"]),
       Leg("legend-implementacao", "Em Implementacao (", d.s["perc_em_implementacao"]),
       Leg("legend-pendentes", "Pendentes (", d.s["perc_pendentes"]) >>

updateProgressBar(d) ==
    << Bar("progress-atendidas", d.s["perc_atendidas"], d.s["atendidas"]),
       Bar("progress-baixadas", d.s["perc_baixadas"], d.s["baixadas"]),
       Bar("progress-implementacao", d.s["perc_em_implementacao"], d.s["em_implementacao"]),
       Bar("progress-pendentes", d.s["perc_pendentes"], d.s["pendentes"]) >>

updateDashboard(d) ==
    << Raw("card-relatorios", d.s["total_relatorios"]),
       Raw("card-recomendacoes", d.s["total_recomendacoes"]),
       Raw("card-beneficios", d.s["beneficios"]),
       Raw("card-unidades", d.s["total_unidades"]) >>
    \o updateStatusBar(d) \o
    << Pct("efetividade-valor", d.s["efetividade"], "%"),
       Raw("efetividade-atendidas-baixadas", d.s["beneficios"]),
       Raw("efetividade-total", d.s["total_recomendacoes"]),
       Gauge("gauge-arc", d.s["efetividade"]),
       Raw("stat-anos", d.s["anos_atuacao"]),
       Raw("stat-relatorios", d.s["total_relatorios"]),
       Raw("stat-unidades", d.s["total_unidades"]),
       Raw("data-atualizacao", d.s["data_atualizacao"]) >>

updateMonitoramento(d) ==
    << Raw("monitor-atendidas", d.s["atendidas"]),
       Pct("monitor-atendidas-perc", d.s["perc_atendidas"], "%"),
       Raw("monitor-baixadas", d.s["baixadas"]),
       Pct("monitor-baixadas-perc", d.s["perc_baixadas"], "%"),
       Raw("monitor-implementacao", d.s["em_implementacao"]),
       Pct("monitor-implementacao-perc", d.s["perc_em_implementacao"], "%"),
       Raw("monitor-pendentes", d.s["pendentes"]),
       Pct("monitor-pendentes-perc", d.s["perc_pendentes"], "%"),
       Pct("monitor-resolvidas-perc", d.s["efetividade"], "% Resolvidas") >>
    \o updateProgressBar(d)

BeneficioItem(item, i) ==
    << Raw("top-beneficio-" \o ToString(i) \o "-nome", item["unidade"]),
       Raw("top-beneficio-" \o ToString(i) \o "-total", item["total"]) >>

RaioXItem(item, i) ==
    << Raw("top-rec-" \o ToString(i) \o "-nome", item["unidade"]),
       Raw("top-rec-" \o ToString(i) \o "-total", item["total"]),
       Pct("top-rec-" \o ToString(i) \o "-perc", item["percentual"], "% do total") >>

RelatorioItem(item, i) ==
    << Raw("report-top-" \o ToString(i) \o "-nome", item["unidade"]),
       Raw("report-top-" \o ToString(i) \o "-total", item["total"]) >>

\* items.forEach((item, index) => ...) with the callback of binder b: the
\* statements of the items from the i-th on
RECURSIVE ForEach(_, _, _)
ForEach(b, items, i) ==
    IF i > Len(items) THEN << >>
    ELSE (CASE b = "updateBeneficios" -> BeneficioItem(items[i], i)
            [] b = "updateRaioX" -> RaioXItem(items[i], i)
            [] b = "updateRelatorios" -> RelatorioItem(items[i], i))
         \o ForEach(b, items, i + 1)

updateBeneficios(d) ==
    << Raw("beneficios-total", d.s["beneficios"]),
       Raw("beneficios-unidades", d.s["unidades_com_beneficios"]),
       Pct("beneficios-media", d.s["media_beneficios_unidade"], "") >>
    \o ForEach("updateBeneficios", ListAll(d, "top_unidades_beneficios"), 1)

updateRaioX(d) ==
    << Raw("raiox-unidades", d.s["total_unidades"]),
       Raw("raiox-anos", d.s["anos_atuacao"]),
       Per("raiox-periodo", d.s["ano_inicio"], d.s["ano_fim"]),
       Pct("raiox-media", d.s["media_rec_ano"], ""),
       Raw("raiox-ano-pico", d.s["ano_pico"]),
       Cat("raiox-rec-pico", d.s["rec_ano_pico"], " recomendacoes") >>
    \o ForEach("updateRaioX", ListSlice(d, "top_unidades_recomendacoes", 3), 1)

updateRelatorios(d) ==
    ForEach("updateRelatorios", ListSlice(d, "top_unidades_recomendacoes", 5), 1)

Binders == { "updateDashboard", "updateMonitoramento", "updateBeneficios",
             "updateRaioX", "updateRelatorios" }

\* The statements binder b runs on document d, in program order
BinderOps(b, d) ==
    CASE b = "updateDashboard" -> updateDashboard(d)
      [] b = "updateMonitoramento" -> updateMonitoramento(d)
      [] b = "updateBeneficios" -> updateBeneficios(d)
      [] b = "updateRaioX" -> updateRaioX(d)
      [] b = "updateRelatorios" -> updateRelatorios(d)

SeqRange(q) == { q[i] : i \in 1..Len(q) }

\* The element ids a binder is bound to
BoundIds(b, d) == { op.id : op \in SeqRange(BinderOps(b, d)) }

PageIds(b) == BoundIds(b, FullDoc)

AllIds == UNION { PageIds(b) : b \in Binders }

-----------------------------------------------------------------------------
(* Running a binder's statements on the DOM *)

\* The text every element ships with in the static markup
StaticText == "--"
StaticWidth == "0%"

\* updateElement(id, value): writes textContent when the element exists
updateElement(st, pres, id, v) ==
    IF id \in pres
    THEN [ st EXCEPT !.text[id] = TextContentOf(v), !.wrote = @ \cup {id} ]
    ELSE st

\* The bar and progress segments: guarded by the element's existence
updateBarElement(st, pres, id, perc, val) ==
    IF id \in pres
    THEN [ st EXCEPT !.width[id] = ToStr(perc) \o "%",
                     !.text[id] = TextContentOf(val),
                     !.wrote = @ \cup {id} ]
    ELSE st

\* One statement. The argument of updateElement is evaluated before the call,
\* so a formatPercent that throws ends the binder whether or not the element
\* exists.
ExecOp(op, st, pres) ==
    CASE op.k \in {"pct", "leg"} /\ FormatPercentThrows(op.a) ->
            [ st EXCEPT !.threw = TRUE ]
      [] op.k = "raw" -> updateElement(st, pres, op.id, op.a)
      [] op.k = "pct" /\ ~FormatPercentThrows(op.a) ->
            updateElement(st, pres, op.id, Str(formatPercent(op.a) \o op.s))
      [] op.k = "leg" /\ ~FormatPercentThrows(op.a) ->
            updateElement(st, pres, op.id, Str(op.s \o formatPercent(op.a) \o "%)"))
      [] op.k = "cat" -> updateElement(st, pres, op.id, Str(ToStr(op.a) \o op.s))
      [] op.k = "per" ->
            updateElement(st, pres, op.id, Str(ToStr(op.a) \o " - " \o ToStr(op.b)))
      [] op.k = "bar" -> updateBarElement(st, pres, op.id, op.a, op.b)
      [] op.k = "gauge" ->
            IF op.id \in pres
            THEN [ st EXCEPT !.gaugeD = calculateGaugeArc(op.a),
                             !.wrote = @ \cup {op.id} ]
            ELSE st

\* The statements from the i-th on, stopping at the first that throws
RECURSIVE RunOps(_, _, _, _)
RunOps(ops, i, st, pres) ==
    IF i > Len(ops) \/ st.threw THEN st
    ELSE RunOps(ops, i + 1, ExecOp(ops[i], st, pres), pres)

-----------------------------------------------------------------------------
(* loadStats, the binders and initDataLoader *)

Null == [ t |-> "null" ]
Obj(c, d) == [ t |-> "obj", by |-> c, doc |-> d ]

\* if (statsData) / if (!stats): an object is truthy, null is falsy
Truthy(v) == v.t = "obj"

Slots == 1..MaxCalls

Callers == Binders \cup {"loadStats"}

IdleCall ==
    [ pc |-> "idle", binder |-> "none", via |-> "none", ret |-> Null,
      fetched |-> FALSE, err |-> FALSE, logged |-> FALSE, cacheWrite |-> FALSE,
      prior |-> {}, wrote |-> {}, before |-> << >> ]

\* The calls that have completed successfully with a stats document
Completed(cs) ==
    { e \in Slots : /\ cs[e].pc \in {"resume", "done", "threw"}
                    /\ ~cs[e].err
                    /\ cs[e].ret.t = "obj" }

\* A binder that calls loadStats() without awaiting it: it goes on at once
\* with the pending promise, an object none of whose fields is defined
LoadStatsEnterNoAwait(b, via, cache, cs) ==
    IF Truthy(cache)
    THEN [ IdleCall EXCEPT !.pc = "resume", !.binder = b, !.via = via,
                           !.ret = cache, !.prior = Completed(cs) ]
    ELSE [ IdleCall EXCEPT !.pc = "resume", !.binder = b, !.via = via,
                           !.ret = Obj(0, EmptyDoc),
                           !.fetched = TRUE, !.prior = Completed(cs) ]

\* loadStats up to its first await: the cached document if there is one,
\* else the fetch is issued.
LoadStatsEnter(b, via, cache, cs) ==
    IF Truthy(cache)
    THEN [ IdleCall EXCEPT !.pc = "resume", !.binder = b, !.via = via,
                           !.ret = cache, !.prior = Completed(cs) ]
    ELSE [ IdleCall EXCEPT !.pc = "fetch", !.binder = b, !.via = via,
                           !.fetched = TRUE, !.prior = Completed(cs) ]

\* A catch block that logs and rethrows instead of returning null
LoadStatsCatchRethrow(call) ==
    [ call EXCEPT !.pc = "threw", !.logged = TRUE ]

\* The catch block: console.error(...); return null
LoadStatsCatch(call) ==
    [ call EXCEPT !.pc = "resume", !.ret = Null, !.logged = TRUE ]

\* statsData = await response.json(); return statsData
LoadStatsStore(call, v) ==
    [ call EXCEPT !.pc = "resume", !.ret = v, !.cacheWrite = TRUE ]

\* The third disjunct of the root-path rule
RootIndexDisjunct(p) == EndsWith(p, "/index.html") /\ ~Includes(p, "/")

\* The chain whose root rule takes the index.html of any directory
DispatchAnyIndex(p) ==
    IF \/ p = "/"
       \/ p = "/index.html"
       \/ EndsWith(p, "/index.html")
    THEN << "updateDashboard" >>
    ELSE IF Includes(p, "/monitor/") THEN << "updateMonitoramento" >>
    ELSE IF Includes(p, "/beneficios/") THEN << "updateBeneficios" >>
    ELSE IF Includes(p, "/raio-x/") THEN << "updateRaioX" >>
    ELSE IF Includes(p, "/report/") THEN << "updateRelatorios" >>
    ELSE << >>

\* The chain with the '/monitor/' and '/report/' branches exchanged
DispatchReportFirst(p) ==
    IF \/ p = "/"
       \/ p = "/index.html"
       \/ (EndsWith(p, "/index.html") /\ ~Includes(p, "/"))
    THEN << "updateDashboard" >>
    ELSE IF Includes(p, "/report/") THEN << "updateRelatorios" >>
    ELSE IF Includes(p, "/beneficios/") THEN << "updateBeneficios" >>
    ELSE IF Includes(p, "/raio-x/") THEN << "updateRaioX" >>
    ELSE IF Includes(p, "/monitor/") THEN << "updateMonitoramento" >>
    ELSE << >>

\* The if / else-if chain of initDataLoader: the binders it invokes
Dispatch(p) ==
    IF \/ p = "/"
       \/ p = "/index.html"
       \/ (EndsWith(p, "/index.html") /\ ~Includes(p, "/"))
    THEN << "updateDashboard" >>
    ELSE IF Includes(p, "/monitor/") THEN << "updateMonitoramento" >>
    ELSE IF Includes(p, "/beneficios/") THEN << "updateBeneficios" >>
    ELSE IF Includes(p, "/raio-x/") THEN << "updateRaioX" >>
    ELSE IF Includes(p, "/report/") THEN << "updateRelatorios" >>
    ELSE << >>

\* The path each page is served at
PagePath(b) ==
    CASE b = "updateDashboard" -> "/"
      [] b = "updateMonitoramento" -> "/monitor/"
      [] b = "updateBeneficios" -> "/beneficios/"
      [] b = "updateRaioX" -> "/raio-x/"
      [] b = "updateRelatorios" -> "/report/"

\* What a script of the page may call besides the DOMContentLoaded handler:
\* loadStats itself, or the binder of the page (a refresh)
DirectCallers(p) == {"loadStats"} \cup { b \in Binders : PagePath(b) = p }

CallDirect(b) ==
    /\ nstarted < ncalls
    /\ b \in DirectCallers(path)
    /\ calls' = [ calls EXCEPT ![nstarted + 1] =
                    LoadStatsEnter(b, "direct", statsData, calls) ]
    /\ nstarted' = nstarted + 1
    /\ netRequests' = IF Truthy(statsData) THEN netRequests ELSE netRequests + 1
    /\ UNCHANGED <<path, present, text, width, gaugeD, serverDoc, statsData,
                   ncalls, domReady, dispatched, cacheWrites, errorLog>>
    /\ UNCHANGED notLoader

\* DOMContentLoaded: initDataLoader
initDataLoader ==
    /\ ~domReady
    /\ LET bs == Dispatch(path) IN
       /\ nstarted + Len(bs) <= ncalls
       /\ domReady' = TRUE
       /\ dispatched' = bs
       /\ calls' = [ c \in Slots |->
                       IF c > nstarted /\ c <= nstarted + Len(bs)
                       THEN LoadStatsEnter(bs[c - nstarted], "init", statsData, calls)
                       ELSE calls[c] ]
       /\ nstarted' = nstarted + Len(bs)
       /\ netRequests' = IF Truthy(statsData) THEN netRequests
                         ELSE netRequests + Len(bs)
    /\ UNCHANGED <<path, present, text, width, gaugeD, serverDoc, statsData,
                   ncalls, cacheWrites, errorLog>>
    /\ UNCHANGED notLoader

\* The fetch of call c settles: it rejects (the catch block runs) or it
\* resolves with a response, whose json() is then awaited.
FetchSettle(c) ==
    /\ calls[c].pc = "fetch"
    /\ \E ok \in BOOLEAN :
         IF ok
         THEN /\ calls' = [ calls EXCEPT ![c].pc = "json" ]
              /\ UNCHANGED errorLog
         ELSE /\ calls' = [ calls EXCEPT
                            ![c] = LoadStatsCatch([ calls[c] EXCEPT !.err = TRUE ]) ]
              /\ errorLog' = errorLog + (IF calls'[c].logged THEN 1 ELSE 0)
    /\ UNCHANGED <<path, present, text, width, gaugeD, serverDoc, statsData,
                   nstarted, ncalls, domReady, dispatched, netRequests, cacheWrites>>
    /\ UNCHANGED notLoader

\* response.json() of call c settles: the body fails to parse (the catch
\* block runs) or it parses, and the result is stored in the cache.
JsonSettle(c) ==
    /\ calls[c].pc = "json"
    /\ \E ok \in BOOLEAN :
         IF ok
         THEN LET v == IF serverDoc.t = "null" THEN Null ELSE Obj(c, serverDoc.doc)
                  nc == LoadStatsStore(calls[c], v) IN
              /\ calls' = [ calls EXCEPT ![c] = nc ]
              /\ statsData' = IF nc.cacheWrite THEN v ELSE statsData
              /\ cacheWrites' = cacheWrites + (IF nc.cacheWrite THEN 1 ELSE 0)
              /\ UNCHANGED errorLog
         ELSE /\ calls' = [ calls EXCEPT
                            ![c] = LoadStatsCatch([ calls[c] EXCEPT !.err = TRUE ]) ]
              /\ errorLog' = errorLog + (IF calls'[c].logged THEN 1 ELSE 0)
              /\ UNCHANGED <<statsData, cacheWrites>>
    /\ UNCHANGED <<path, present, text, width, gaugeD, serverDoc,
                   nstarted, ncalls, domReady, dispatched, netRequests>>
    /\ UNCHANGED notLoader

\* The binder of call c resumes after `await loadStats()`:
\* if (!stats) return; then its statements, to the end or to a throw.
BinderResume(c) ==
    /\ calls[c].pc = "resume"
    /\ IF calls[c].binder = "loadStats" \/ ~Truthy(calls[c].ret)
       THEN /\ calls' = [ calls EXCEPT ![c].pc = "done" ]
            /\ UNCHANGED <<text, width, gaugeD>>
       ELSE LET st0 == [ text |-> text, width |-> width, gaugeD |-> gaugeD,
                         wrote |-> {}, threw |-> FALSE ]
                st == RunOps(BinderOps(calls[c].binder, calls[c].ret.doc), 1,
                             st0, present) IN
            /\ text' = st.text
            /\ width' = st.width
            /\ gaugeD' = st.gaugeD
            /\ calls' = [ calls EXCEPT ![c].pc = IF st.threw THEN "threw" ELSE "done",
                                       ![c].wrote = st.wrote,
                                       ![c].before = text ]
    /\ UNCHANGED <<path, present, serverDoc, statsData, nstarted, ncalls,
                   domReady, dispatched, netRequests, cacheWrites, errorLog>>
    /\ UNCHANGED notLoader

-----------------------------------------------------------------------------
(* The page loads the runs start from *)

Segments == { "monitor", "beneficios", "raio-x", "report", "index.html", "x" }

\* The paths of at most n segments, with and without a trailing slash
RECURSIVE PathsUpTo(_)
PathsUpTo(n) ==
    IF n = 0 THEN { "" }
    ELSE PathsUpTo(n - 1)
         \cup { p \o "/" \o sg : p \in PathsUpTo(n - 1), sg \in Segments }

Paths == { "/" } \cup { p : p \in PathsUpTo(MaxPathDepth) \ {""} }
         \cup { p \o "/" : p \in PathsUpTo(MaxPathDepth) \ {""} }

\* The markups of page b: all of its elements, all but one, or none
Layouts(b) == { PageIds(b), {} } \cup { PageIds(b) \ {i} : i \in PageIds(b) }

ServerDocs == { [ t |-> "doc", doc |-> d ] : d \in Docs } \cup { [ t |-> "null" ] }

LoaderIdle ==
    /\ text = [ i \in AllIds |-> StaticText ]
    /\ width = [ i \in AllIds |-> StaticWidth ]
    /\ gaugeD = StaticPath
    /\ statsData = Null
    /\ calls = [ c \in Slots |-> IdleCall ]
    /\ nstarted = 0
    /\ domReady = FALSE
    /\ dispatched = << >>
    /\ netRequests = 0
    /\ cacheWrites = 0
    /\ errorLog = 0

\* Several invocations on the dashboard page
InitConcurrent ==
    /\ ncalls = MaxCalls
    /\ path = "/"
    /\ present = PageIds("updateDashboard")
    /\ serverDoc = [ t |-> "doc", doc |-> FullDoc ]

\* One invocation, on each page, markup and document
InitPages ==
    /\ ncalls = 1
    /\ \E b \in Binders : path = PagePath(b) /\ present \in Layouts(b)
    /\ serverDoc \in ServerDocs

\* One invocation, on each path
InitPaths ==
    /\ ncalls = 1
    /\ path \in Paths
    /\ present = AllIds
    /\ serverDoc = [ t |-> "doc", doc |-> FullDoc ]

\* The loader when a run is about another component: no page script calls it
LoaderOff ==
    /\ LoaderIdle
    /\ ncalls = 0
    /\ path = "/x"
    /\ present = {}
    /\ serverDoc = [ t |-> "null" ]

GaugeOff ==
    /\ gaugeIn = Undef
    /\ gaugeOut = [ called |-> FALSE, d |-> StaticPath ]

AccOff ==
    /\ accCtl = << >>
    /\ accExpanded = << >>
    /\ accHidden = << >>
    /\ accGroup = << >>
    /\ accFocus = 0
    /\ accLast = [ t |-> 0, wasLockstep |-> FALSE, flippedExpanded |-> FALSE,
                   flippedHidden |-> FALSE, key |-> "" ]

TabOff ==
    /\ tabN = 0
    /\ tabCtl = << >>
    /\ tabAttrs = << >>
    /\ tabHidden = << >>
    /\ tabFocus = 0
    /\ tabTimers = 0
    /\ tabLast = [ event |-> "none", tab |-> 0, target |-> 0 ]

ChartOff ==
    /\ chartLib = {}
    /\ reportCanvas = << >>
    /\ dashCanvases = << >>
    /\ plotlyEls = << >>
    /\ charts = << >>
    /\ chartOut = << >>

\* A widget whose markup the document does not hold
SidebarOff == sidebar = << >>
DemoFormOff == demoForm = << >>
FiltroOff == filtro = << >>
HamburgerOff == hamburger = << >>
PaintChartsOff == paintCharts = << >>
CountersOff == counters = << >>

DebouncedOff == debounced = << >>

PaintDataOff == paintData = << >>

ScrollSpyOff == scrollSpy = << >>

UtilOff == DebouncedOff /\ PaintDataOff /\ ScrollSpyOff

WidgetOff ==
    /\ SidebarOff /\ DemoFormOff /\ FiltroOff /\ HamburgerOff
    /\ PaintChartsOff /\ CountersOff

CoreOff == LoaderOff /\ GaugeOff /\ AccOff /\ TabOff /\ ChartOff

Init ==
    /\ LoaderIdle /\ (InitConcurrent \/ InitPages \/ InitPaths)
    /\ GaugeOff /\ AccOff /\ TabOff /\ ChartOff
    /\ SidebarOff /\ DemoFormOff /\ FiltroOff /\ HamburgerOff
    /\ PaintChartsOff /\ CountersOff
    /\ UtilOff

Next ==
    \/ \E b \in Callers : CallDirect(b)
    \/ initDataLoader
    \/ \E c \in Slots : FetchSettle(c)
    \/ \E c \in Slots : JsonSettle(c)
    \/ \E c \in Slots : BinderResume(c)

Spec == Init /\ [][Next]_vars

-----------------------------------------------------------------------------
(* Claims about the data loader *)

Settled(c) == calls[c].pc \in {"resume", "done", "threw"}

Finished(c) == calls[c].pc \in {"done", "threw"}

\* C1: once a loadStats() call has completed successfully with a stats
\* document, every later loadStats() call returns that same object and
\* issues no network request.
C1_LaterCallsReturnCached ==
    \A c \in Slots :
        Settled(c) =>
            \A e \in calls[c].prior :
                /\ calls[c].ret = calls[e].ret
                /\ ~calls[c].fetched

\* C2: when the fetch rejects or the body fails to parse, loadStats() logs
\* the error and returns null without throwing, it does not write the cache
\* (which stays empty unless another call filled it), and the binder that
\* called it returns without writing to any DOM element.
C2_FailureIsLoggedNoOp ==
    \A c \in Slots :
        calls[c].err =>
            /\ calls[c].pc \in {"resume", "done"}
            /\ calls[c].ret = Null
            /\ calls[c].logged
            /\ errorLog = Cardinality({ e \in Slots : calls[e].err })
            /\ ~calls[c].cacheWrite
            /\ (\A e \in Slots : ~calls[e].cacheWrite) => statsData = Null
            /\ calls[c].wrote = {}
            /\ calls[c].before = << >>
            /\ (ncalls = 1 /\ calls[c].pc = "done") =>
                 /\ text = [ i \in AllIds |-> StaticText ]
                 /\ width = [ i \in AllIds |-> StaticWidth ]
                 /\ gaugeD = StaticPath

C2_Witness ==
    \E c \in Slots :
        /\ calls[c].err
        /\ calls[c].pc = "done"
        /\ calls[c].binder \in Binders
        /\ PageIds(calls[c].binder) \subseteq present
        /\ statsData = Null

\* C3: over any number and interleaving of loadStats() calls of one page
\* load, the cache statsData is written at most once.
C3_CacheWrittenAtMostOnce == cacheWrites <= 1

\* The values that feed the text of the element a statement is bound to
TextSources(op) ==
    CASE op.k \in {"raw", "pct", "leg", "cat"} -> {op.a}
      [] op.k = "per" -> {op.a, op.b}
      [] op.k = "bar" -> {op.b}
      [] op.k = "gauge" -> {}

\* C4: for every binder and every field it reads, if the field is absent
\* from the loaded document then the element bound to it keeps exactly the
\* text it had before the binder ran.
C4_AbsentFieldKeepsText ==
    \A c \in Slots :
        (Finished(c) /\ calls[c].binder \in Binders /\ Truthy(calls[c].ret)) =>
            \A op \in SeqRange(BinderOps(calls[c].binder, calls[c].ret.doc)) :
                (op.id \in present /\ Undef \in TextSources(op)) =>
                    text[op.id] = calls[c].before[op.id]

\* C5: a binder writes a bound element id if and only if the element exists,
\* raising no error when one is absent and still writing every other bound
\* element that exists.
C5_WritesExactlyExistingBound ==
    \A c \in Slots :
        (Finished(c) /\ calls[c].binder \in Binders /\ Truthy(calls[c].ret)) =>
            /\ calls[c].pc = "done"
            /\ calls[c].wrote =
                 BoundIds(calls[c].binder, calls[c].ret.doc) \cap present

\* The rules of the route dispatcher, in order
RuleBinder ==
    << "updateDashboard", "updateMonitoramento", "updateBeneficios",
       "updateRaioX", "updateRelatorios" >>

RuleMatches(k, p) ==
    CASE k = 1 -> p \in { "/", "/index.html" }
      [] k = 2 -> Includes(p, "/monitor/")
      [] k = 3 -> Includes(p, "/beneficios/")
      [] k = 4 -> Includes(p, "/raio-x/")
      [] k = 5 -> Includes(p, "/report/")

Matching(p) == { k \in 1..5 : RuleMatches(k, p) }

InitCalls == { c \in Slots : calls[c].via = "init" }

\* C6: initDataLoader invokes at most one binder, the binder of the first
\* matching rule, and none when no rule matches.
C6_FirstMatchingRuleOnly ==
    domReady =>
        /\ Len(dispatched) <= 1
        /\ Cardinality(InitCalls) = Len(dispatched)
        /\ Matching(path) = {} => dispatched = << >>
        /\ Matching(path) # {} =>
             LET k == CHOOSE m \in Matching(path) :
                          \A n \in Matching(path) : m <= n IN
             /\ dispatched = << RuleBinder[k] >>
             /\ \A c \in InitCalls : calls[c].binder = RuleBinder[k]

C6_Witness ==
    /\ domReady
    /\ Cardinality(Matching(path)) >= 2
    /\ dispatched = << "updateMonitoramento" >>
    /\ 5 \in Matching(path)

\* The fetch a call awaits has settled with a document: the call found the
\* cache filled, or its own fetch and parse succeeded and were stored
SettledWithDocument(c) ==
    /\ calls[c].ret.t = "obj"
    /\ ~calls[c].err
    /\ calls[c].fetched => calls[c].cacheWrite

\* C11: no binder writes to a DOM element before the fetch it awaits has
\* settled: a call that wrote had loadStats() resolve with a document, a call
\* still waiting on its fetch or parse has written nothing, and a call whose
\* loadStats() resolved with the failure result has written nothing.
C11_WritesOnlyAfterSettled ==
    \A c \in Slots :
        /\ calls[c].wrote # {} =>
              /\ calls[c].pc \in {"done", "threw"}
              /\ calls[c].binder \in Binders
              /\ SettledWithDocument(c)
        /\ calls[c].pc \in {"idle", "fetch", "json", "resume"} =>
              calls[c].wrote = {}
        /\ (calls[c].pc = "done" /\ ~Truthy(calls[c].ret)) =>
              calls[c].wrote = {}

C11_Witness ==
    \E c, e \in Slots :
        /\ calls[c].binder \in Binders
        /\ calls[c].fetched /\ calls[c].cacheWrite
        /\ calls[c].wrote # {}
        /\ calls[e].binder \in Binders
        /\ calls[e].err /\ calls[e].pc = "done"

\* C14: the third disjunct of the root-path rule is false for every path,
\* so initDataLoader invokes updateDashboard exactly when the path is '/' or
\* '/index.html'.
C14_RootRuleOnlyRootPaths ==
    /\ ~RootIndexDisjunct(path)
    /\ domReady =>
         ( "updateDashboard" \in { dispatched[k] : k \in 1..Len(dispatched) }
             <=> path \in { "/", "/index.html" } )

C14_Witness ==
    /\ domReady
    /\ EndsWith(path, "/index.html")
    /\ path # "/index.html"
    /\ Matching(path) = {}
    /\ dispatched = << >>

\* A call of binder b that got a document and has ended, by returning or
\* by throwing
RanOn(c, b) ==
    /\ calls[c].binder = b
    /\ Finished(c)
    /\ calls[c].ret.t = "obj"

Digits == { "0", "1", "2", "3", "4", "5", "6", "7", "8", "9" }

\* s ends with a comma, one digit and the suffix
OneFractionDigit(s, suffix) ==
    LET n == Len(s) - Len(suffix) IN
    /\ n >= 3
    /\ SubSeq(s, n + 1, Len(s)) = suffix
    /\ SubSeq(s, n, n) \in Digits
    /\ SubSeq(s, n - 1, n - 1) = ","
    /\ SubSeq(s, n - 2, n - 2) \in Digits

\* C15: formatPercent renders a number with exactly one fractional digit
\* and a comma as decimal separator: for a document with efetividade 73.5
\* the dashboard binder writes '73,5%' to 'efetividade-valor' and sets the
\* gauge path with large-arc flag 1; a whole percentage such as 15 is
\* written as '15,0%'.
C15_PercentOneDigitComma ==
    \A c \in Slots :
        /\ (RanOn(c, "updateDashboard")
              /\ calls[c].ret.doc.s["efetividade"] = Num(735)) =>
               /\ "efetividade-valor" \in present =>
                     /\ text["efetividade-valor"] = "73,5%"
                     /\ OneFractionDigit(text["efetividade-valor"], "%")
               /\ "gauge-arc" \in present => gaugeD.largeArc = 1
        /\ (RanOn(c, "updateMonitoramento")
              /\ calls[c].ret.doc.s["perc_em_implementacao"] = Num(150)
              /\ "monitor-implementacao-perc" \in present) =>
               /\ text["monitor-implementacao-perc"] = "15,0%"
               /\ OneFractionDigit(text["monitor-implementacao-perc"], "%")

-----------------------------------------------------------------------------
(* calculateGaugeArc on every percentage *)

\* The percentages passed: every tenth from below 0 to above 100
GaugeInputs ==
    { Num(n) : n \in (10 * (PercentMin - GaugeMargin))..(10 * (PercentMax + GaugeMargin)) }
    \cup {Undef}

GaugeCall ==
    /\ ~gaugeOut.called
    /\ gaugeOut' = [ called |-> TRUE, d |-> calculateGaugeArc(gaugeIn) ]
    /\ UNCHANGED gaugeIn
    /\ UNCHANGED notGauge

InitGauge ==
    /\ gaugeIn \in GaugeInputs
    /\ gaugeOut = [ called |-> FALSE, d |-> StaticPath ]
    /\ LoaderOff /\ AccOff /\ TabOff /\ ChartOff
    /\ SidebarOff /\ DemoFormOff /\ FiltroOff /\ HamburgerOff
    /\ PaintChartsOff /\ CountersOff
    /\ UtilOff

NextGauge == GaugeCall

SpecGauge == InitGauge /\ [][NextGauge]_vars

InPercentRange(v) ==
    v.t = "num" /\ v.v >= 10 * PercentMin /\ v.v <= 10 * PercentMax

-----------------------------------------------------------------------------
(* Accordion: AUDIN.initAccordions, toggleAccordionPanel,                   *)
(* handleAccordionKeydown. The listeners are those of the one               *)
(* initAccordions(document) call of DOMContentLoaded.                       *)

AccTrigs == 1..AccTriggers

AccPanelIds == { "panel-" \o ToString(k) : k \in 1..AccPanels }

\* aria-controls: no attribute (or an empty one), the id of a panel, or an
\* id no element carries
AccControls == { "", "no-such-panel" } \cup AccPanelIds

\* getAttribute('aria-expanded'); "null" stands for the attribute's absence
AccExpandedValues == { "true", "false", "null" }

AccKeys == { "Enter", " ", "ArrowDown", "ArrowUp", "Home", "End", "Tab" }

\* getAttribute('aria-expanded') === 'true'
IsExpanded(v) == v = "true"

\* toggleAccordionPanel(trigger) on st = [expanded, hidden]
toggleAccordionPanel(st, ctl, t) ==
    IF ctl[t] = "" THEN st
    ELSE IF ctl[t] \notin AccPanelIds THEN st
    ELSE [ expanded |-> [ st.expanded EXCEPT ![t] =
                            IF IsExpanded(st.expanded[t]) THEN "false" ELSE "true" ],
           hidden |-> [ st.hidden EXCEPT ![ctl[t]] = IsExpanded(st.expanded[t]) ] ]

\* The triggers of trigger t's group, in document order
RECURSIVE AccGroupFrom(_, _, _)
AccGroupFrom(grp, g, t) ==
    IF t > AccTriggers THEN << >>
    ELSE (IF grp[t] = g THEN << t >> ELSE << >>) \o AccGroupFrom(grp, g, t + 1)

AccSiblings(grp, t) == AccGroupFrom(grp, grp[t], 1)

IndexOf(q, x) == CHOOSE i \in 1..Len(q) : q[i] = x

\* A handler that takes ArrowUp for Home
AccKeyFocusUpAsHome(grp, t, key, focus) ==
    LET siblings == AccSiblings(grp, t)
        n == Len(siblings)
        cur == IndexOf(siblings, t) - 1 IN
    IF key \notin { "ArrowDown", "ArrowUp", "Home", "End" } THEN focus
    ELSE IF n <= 1 THEN focus
    ELSE CASE key = "ArrowDown" -> siblings[((cur + 1) % n) + 1]
           [] key = "ArrowUp" -> siblings[1]
           [] key = "Home" -> siblings[1]
           [] key = "End" -> siblings[n]

\* The trigger handleAccordionKeydown focuses for a navigation key, or the
\* focus as it is
AccKeyFocus(grp, t, key, focus) ==
    LET siblings == AccSiblings(grp, t)
        n == Len(siblings)
        cur == IndexOf(siblings, t) - 1 IN
    IF key \notin { "ArrowDown", "ArrowUp", "Home", "End" } THEN focus
    ELSE IF n <= 1 THEN focus
    ELSE CASE key = "ArrowDown" -> siblings[((cur + 1) % n) + 1]
           [] key = "ArrowUp" -> siblings[((cur - 1 + n) % n) + 1]
           [] key = "Home" -> siblings[1]
           [] key = "End" -> siblings[n]

\* What an activation of trigger t did, for the claims
AccRecord(t, st0, st1) ==
    LET p == accCtl[t] IN
    IF p \notin AccPanelIds
    THEN [ t |-> t, wasLockstep |-> FALSE, flippedExpanded |-> FALSE,
           flippedHidden |-> FALSE, key |-> "" ]
    ELSE [ t |-> t, key |-> "",
           wasLockstep |-> (IsExpanded(st0.expanded[t]) <=> ~st0.hidden[p]),
           flippedExpanded |->
               (IsExpanded(st0.expanded[t]) # IsExpanded(st1.expanded[t])),
           flippedHidden |-> (st0.hidden[p] # st1.hidden[p]) ]

AccActivate(t) ==
    LET st0 == [ expanded |-> accExpanded, hidden |-> accHidden ]
        st1 == toggleAccordionPanel(st0, accCtl, t) IN
    /\ accExpanded' = st1.expanded
    /\ accHidden' = st1.hidden
    /\ accLast' = AccRecord(t, st0, st1)

\* click on trigger t
AccClick(t) ==
    /\ AccActivate(t)
    /\ UNCHANGED <<accCtl, accGroup, accFocus>>
    /\ UNCHANGED notAcc

\* keydown on trigger t, which has focus
AccKeydown(t, key) ==
    /\ accFocus = t
    /\ IF key \in { "Enter", " " }
       THEN AccActivate(t) /\ UNCHANGED accFocus
       ELSE /\ accFocus' = AccKeyFocus(accGroup, t, key, accFocus)
            /\ accLast' = [ t |-> 0, wasLockstep |-> FALSE,
                            flippedExpanded |-> FALSE, flippedHidden |-> FALSE,
                            key |-> key ]
            /\ UNCHANGED <<accExpanded, accHidden>>
    /\ UNCHANGED <<accCtl, accGroup>>
    /\ UNCHANGED notAcc

\* The user moves focus to trigger t
AccFocusTrigger(t) ==
    /\ accFocus # t
    /\ accFocus' = t
    /\ accLast' = [ t |-> 0, wasLockstep |-> FALSE, flippedExpanded |-> FALSE,
                    flippedHidden |-> FALSE, key |-> "" ]
    /\ UNCHANGED <<accCtl, accExpanded, accHidden, accGroup>>
    /\ UNCHANGED notAcc

\* The markup: any aria-controls (two triggers may name the same panel), and
\* every trigger that names a panel agreeing with it, as the markup of a
\* collapsed or expanded accordion item does.
InitAcc ==
    /\ accCtl \in [ AccTrigs -> AccControls ]
    /\ accExpanded \in [ AccTrigs -> AccExpandedValues ]
    /\ accHidden \in [ AccPanelIds -> BOOLEAN ]
    /\ \A t \in AccTrigs :
         accCtl[t] \in AccPanelIds =>
             (IsExpanded(accExpanded[t]) <=> ~accHidden[accCtl[t]])
    /\ accGroup \in [ AccTrigs -> { "default", "group" } ]
    /\ accFocus = 0
    /\ accLast = [ t |-> 0, wasLockstep |-> FALSE, flippedExpanded |-> FALSE,
                   flippedHidden |-> FALSE, key |-> "" ]
    /\ LoaderOff /\ GaugeOff /\ TabOff /\ ChartOff
    /\ SidebarOff /\ DemoFormOff /\ FiltroOff /\ HamburgerOff
    /\ PaintChartsOff /\ CountersOff
    /\ UtilOff

NextAcc ==
    \/ \E t \in AccTrigs : AccClick(t)
    \/ \E t \in AccTrigs, key \in AccKeys : AccKeydown(t, key)
    \/ \E t \in AccTrigs : AccFocusTrigger(t)

SpecAcc == InitAcc /\ [][NextAcc]_vars

\* The last activation was of a trigger whose aria-controls names a panel
AccActivated == accLast.t # 0 /\ accCtl[accLast.t] \in AccPanelIds

AccLockstep(t) == IsExpanded(accExpanded[t]) <=> ~accHidden[accCtl[t]]

\* C8: after every click or Enter/Space on a trigger whose aria-controls
\* names an existing panel, aria-expanded is 'true' exactly when the panel
\* is not hidden, and the activation flipped both of them.
C8_ActivationFlipsBoth ==
    AccActivated =>
        /\ AccLockstep(accLast.t)
        /\ accLast.flippedExpanded
        /\ accLast.flippedHidden

\* The markup of an accordion whose triggers each control a panel of their
\* own, or none
InitAccNav ==
    /\ InitAcc
    /\ \A t \in AccTrigs : accCtl[t] \in { "", "panel-" \o ToString(t) }

SpecAccNav == InitAccNav /\ [][NextAcc]_vars

AccNavKeys == { "ArrowDown", "ArrowUp", "Home", "End" }

\* The step is a keydown of a navigation key on the focused trigger, whose
\* group has more than one trigger
AccNavStep ==
    /\ accLast'.key \in AccNavKeys
    /\ accFocus \in AccTrigs
    /\ Len(AccSiblings(accGroup, accFocus)) > 1

\* The trigger the claim names for the key pressed on trigger t
AccNavExpected(t, key) ==
    LET siblings == AccSiblings(accGroup, t)
        n == Len(siblings)
        i == IndexOf(siblings, t) IN
    CASE key = "ArrowDown" -> IF i = n THEN siblings[1] ELSE siblings[i + 1]
      [] key = "ArrowUp" -> IF i = 1 THEN siblings[n] ELSE siblings[i - 1]
      [] key = "Home" -> siblings[1]
      [] key = "End" -> siblings[n]

-----------------------------------------------------------------------------
(* Tabs: AUDIN.initTabs and activateTab *)

TabPanelIds == { "tabpanel-" \o ToString(k) : k \in 1..MaxTabs }

\* aria-controls of a tab: the id of a panel, or an id no element carries
\* (document.getElementById then yields null)
TabControls == TabPanelIds \cup { "no-such-panel" }

TabKeys == { "ArrowRight", "ArrowLeft", "Home", "End", "Enter" }

TabAttr(sel) ==
    [ selected |-> IF sel THEN "true" ELSE "false",
      active |-> sel,
      tabindex |-> IF sel THEN "0" ELSE "-1" ]

\* A keydown handler whose End branch repeats the ArrowRight one
TabKeyTargetEndAsRight(key, index, n) ==
    CASE key = "ArrowRight" -> ((index - 1 + 1) % n) + 1
      [] key = "ArrowLeft" -> ((index - 1 - 1 + n) % n) + 1
      [] key = "Home" -> 1
      [] key = "End" -> ((index - 1 + 1) % n) + 1
      [] OTHER -> 0

\* The keydown handler of the tab at (1-based) index among n tabs: the
\* (1-based) targetIndex, or 0 for a key it returns on
TabKeyTarget(key, index, n) ==
    CASE key = "ArrowRight" -> ((index - 1 + 1) % n) + 1
      [] key = "ArrowLeft" -> ((index - 1 - 1 + n) % n) + 1
      [] key = "Home" -> 1
      [] key = "End" -> (n - 1) + 1
      [] OTHER -> 0

\* panels.forEach((p, i) => { if (p) p.hidden = (i !== index) }), from the
\* i-th panel on
RECURSIVE TabSetHidden(_, _, _, _, _)
TabSetHidden(hidden, ctl, n, index, i) ==
    IF i > n THEN hidden
    ELSE TabSetHidden(
             IF ctl[i] \in TabPanelIds
             THEN [ hidden EXCEPT ![ctl[i]] = (i # index) ]
             ELSE hidden,
             ctl, n, index, i + 1)

\* activateTab(index) on st = [attrs, hidden]
activateTab(st, ctl, n, index) ==
    [ attrs |-> [ i \in 1..n |-> TabAttr(i = index) ],
      hidden |-> TabSetHidden(st.hidden, ctl, n, index, 1) ]

TabActivate(event, tab, index) ==
    LET st == activateTab([ attrs |-> tabAttrs, hidden |-> tabHidden ],
                          tabCtl, tabN, index) IN
    /\ tabTimers < MaxTabTimers
    /\ tabAttrs' = st.attrs
    /\ tabHidden' = st.hidden
    /\ tabTimers' = tabTimers + 1
    /\ tabLast' = [ event |-> event, tab |-> tab, target |-> index ]

\* click on tab i
TabClick(i) ==
    /\ i \in 1..tabN
    /\ TabActivate("click", i, i)
    /\ UNCHANGED <<tabN, tabCtl, tabFocus>>
    /\ UNCHANGED notTab

\* keydown on tab i, which has focus
TabKeydown(i, key) ==
    /\ i \in 1..tabN
    /\ tabFocus = i
    /\ LET target == TabKeyTarget(key, i, tabN) IN
       IF target = 0
       THEN UNCHANGED <<tabAttrs, tabHidden, tabTimers, tabLast, tabFocus>>
       ELSE /\ TabActivate(key, i, target)
            /\ tabFocus' = target
    /\ UNCHANGED <<tabN, tabCtl>>
    /\ UNCHANGED notTab

\* The user moves focus to tab i
TabFocusTab(i) ==
    /\ i \in 1..tabN
    /\ tabFocus # i
    /\ tabFocus' = i
    /\ UNCHANGED <<tabN, tabCtl, tabAttrs, tabHidden, tabTimers, tabLast>>
    /\ UNCHANGED notTab

\* A timer of activateTab fires: window.dispatchEvent(new Event('resize'))
TabTimerFires ==
    /\ tabTimers > 0
    /\ tabTimers' = tabTimers - 1
    /\ UNCHANGED <<tabN, tabCtl, tabAttrs, tabHidden, tabFocus, tabLast>>
    /\ UNCHANGED notTab

\* The markup: up to MaxTabs tabs, each naming any panel or none; either
\* the first tab is marked selected and only its panel shown, or nothing
\* is marked and every panel is shown.
InitTab ==
    /\ tabN \in 0..MaxTabs
    /\ tabCtl \in [ 1..tabN -> TabControls ]
    /\ \E marked \in BOOLEAN :
         /\ tabAttrs = [ i \in 1..tabN |-> TabAttr(marked /\ i = 1) ]
         /\ tabHidden = [ p \in TabPanelIds |->
                            marked /\ ~(tabN >= 1 /\ tabCtl[1] = p) ]
    /\ tabFocus = 0
    /\ tabTimers = 0
    /\ tabLast = [ event |-> "none", tab |-> 0, target |-> 0 ]
    /\ LoaderOff /\ GaugeOff /\ AccOff /\ ChartOff
    /\ SidebarOff /\ DemoFormOff /\ FiltroOff /\ HamburgerOff
    /\ PaintChartsOff /\ CountersOff
    /\ UtilOff

NextTab ==
    \/ \E i \in 1..MaxTabs : TabClick(i)
    \/ \E i \in 1..MaxTabs, key \in TabKeys : TabKeydown(i, key)
    \/ \E i \in 1..MaxTabs : TabFocusTab(i)
    \/ TabTimerFires

SpecTab == InitTab /\ [][NextTab]_vars

\* The panels of the tablist: those a tab's aria-controls names
TabPanels == { tabCtl[i] : i \in 1..tabN } \cap TabPanelIds

TabIsActive(i) == tabAttrs[i] = TabAttr(TRUE)

\* C9: pressing End on any tab activates the last tab, whatever the index
\* of the tab that received the key; after any activation every panel other
\* than the activated tab's panel is hidden.
C9_EndActivatesLastOthersHidden ==
    tabLast.event # "none" =>
        /\ tabLast.event = "End" =>
             /\ tabLast.target = tabN
             /\ TabIsActive(tabN)
             /\ \A i \in 1..tabN : i # tabN => tabAttrs[i] = TabAttr(FALSE)
        /\ TabIsActive(tabLast.target)
        /\ \A p \in TabPanels : p # tabCtl[tabLast.target] => tabHidden[p]

C9_Witness ==
    /\ tabLast.event = "End"
    /\ tabN = MaxTabs
    /\ tabLast.tab = 1
    /\ TabIsActive(tabN)
    /\ Cardinality(TabPanels) = MaxTabs
    /\ ~tabHidden[tabCtl[tabN]]

\* The tabs that carry the mark: aria-selected 'true', tabindex '0', the
\* active class
TabSelected == { i \in 1..tabN : tabAttrs[i].selected = "true" }

TabIndexZero == { i \in 1..tabN : tabAttrs[i].tabindex = "0" }

TabActiveClass == { i \in 1..tabN : tabAttrs[i].active }

\* C25: after any sequence of click, ArrowLeft, ArrowRight, Home and End
\* events on the tabs, exactly one tab has aria-selected 'true', that same
\* tab is the only one with tabindex '0' and the active class, its panel is
\* the only panel not hidden, and ArrowRight on the last tab activates the
\* first while ArrowLeft on the first activates the last.
C25_OneTabSelectedItsPanelShown ==
    tabLast.event # "none" =>
        /\ TabSelected = { tabLast.target }
        /\ TabIndexZero = { tabLast.target }
        /\ TabActiveClass = { tabLast.target }
        /\ \A p \in TabPanels : ~tabHidden[p] <=> p = tabCtl[tabLast.target]
        /\ (tabLast.event = "ArrowRight" /\ tabLast.tab = tabN) =>
               tabLast.target = 1
        /\ (tabLast.event = "ArrowLeft" /\ tabLast.tab = 1) =>
               tabLast.target = tabN
        /\ tabLast.event = "click" => tabLast.target = tabLast.tab

-----------------------------------------------------------------------------
(* Chart adapters: initReportCharts, initDashboardCharts, initPlotlyCharts *)

\* The texts a data-attribute may carry
JsonEmpty == "[]"
JsonLabels == "[\"A\",\"B\"]"
JsonValues == "[3,4]"
JsonColors == "[\"#111\",\"#222\"]"
JsonParents == "[\"\",\"A\"]"
JsonNull == "null"
JsonMalformed == "[3,"

Arr(items) == [ t |-> "array", items |-> items ]

\* JSON.parse(text): the value, or a SyntaxError
JSONParse(json) ==
    CASE json = JsonEmpty -> [ ok |-> TRUE, v |-> Arr(<< >>) ]
      [] json = JsonLabels -> [ ok |-> TRUE, v |-> Arr(<<"A", "B">>) ]
      [] json = JsonValues -> [ ok |-> TRUE, v |-> Arr(<<"3", "4">>) ]
      [] json = JsonColors -> [ ok |-> TRUE, v |-> Arr(<<"#111", "#222">>) ]
      [] json = JsonParents -> [ ok |-> TRUE, v |-> Arr(<<"", "A">>) ]
      [] json = JsonNull -> [ ok |-> TRUE, v |-> Null ]
      [] OTHER -> [ ok |-> FALSE, v |-> Undef ]

\* if (canvas.dataset.labels): an absent attribute and "" are falsy
AttrTruthy(a) == a.t = "str" /\ a.v # ""

\* canvas.dataset.labels || '[]'
AttrOrEmpty(a) == IF AttrTruthy(a) THEN a.v ELSE JsonEmpty

\* Reading .length of a value: null has none (a TypeError)
HasLength(v) == v.t = "array"

Malformed(a) == a.t = "str" /\ ~JSONParse(a.v).ok

NoChart == [ adapter |-> "none", el |-> "", labels |-> << >>,
             values |-> << >>, colors |-> << >> ]

StatusDefaultLabels == <<"Implementadas", "Em andamento", "Pendentes">>
StatusColors == <<"#2e7d32", "#c05621", "#c53030">>
AchadosColors == <<"#2e7d32">>
DefaultColors == <<"#2e7d32", "#c05621", "#2b6cb0", "#c53030", "#4a5568", "#1b5e20">>

ReportIds == <<"chart-status", "chart-achados">>

ReportDefaultLabels(id) ==
    IF id = "chart-status" THEN StatusDefaultLabels ELSE << >>

\* The try/catch of a report canvas: labels and values start at their
\* defaults, each truthy attribute is parsed, and a parse error resets both.
ReportParse(canvas, id) ==
    LET l == IF AttrTruthy(canvas.labels) THEN JSONParse(canvas.labels.v)
             ELSE [ ok |-> TRUE, v |-> Arr(ReportDefaultLabels(id)) ]
        v == IF AttrTruthy(canvas.values) THEN JSONParse(canvas.values.v)
             ELSE [ ok |-> TRUE, v |-> Arr(<< >>) ] IN
    IF l.ok /\ v.ok
    THEN [ labels |-> l.v.items, values |-> v.v.items ]
    ELSE [ labels |-> ReportDefaultLabels(id), values |-> << >> ]

\* One report canvas: if (canvas) { ...; new Chart(canvas, ...) }
ReportCanvasCharts(canvas, id) ==
    IF ~canvas.present THEN << >>
    ELSE LET p == ReportParse(canvas, id) IN
         << [ adapter |-> "report", el |-> id, labels |-> p.labels,
              values |-> p.values,
              colors |-> IF id = "chart-status" THEN StatusColors
                         ELSE AchadosColors ] >>

\* AUDIN.initReportCharts(container)
initReportCharts ==
    /\ chartOut.report = "idle"
    /\ IF "Chart" \notin chartLib
       THEN UNCHANGED charts
       ELSE charts' = charts
                \o ReportCanvasCharts(reportCanvas[1], ReportIds[1])
                \o ReportCanvasCharts(reportCanvas[2], ReportIds[2])
    /\ chartOut' = [ chartOut EXCEPT !.report = "returned" ]
    /\ UNCHANGED <<chartLib, reportCanvas, dashCanvases, plotlyEls>>
    /\ UNCHANGED notChart

\* A try block that guards each attribute on its own and falls back to []
\* for colors
DashboardParseColorsDefault(canvas) ==
    LET l == JSONParse(AttrOrEmpty(canvas.labels))
        v == JSONParse(AttrOrEmpty(canvas.values))
        c == JSONParse(AttrOrEmpty(canvas.colors)) IN
    [ ok |-> l.ok /\ v.ok, labels |-> l.v, values |-> v.v,
      colors |-> IF c.ok THEN c.v ELSE Arr(<< >>) ]

\* The try/catch of a dashboard canvas: the three attributes are parsed,
\* and a parse error of any of them leaves the callback
DashboardParse(canvas) ==
    LET l == JSONParse(AttrOrEmpty(canvas.labels))
        v == JSONParse(AttrOrEmpty(canvas.values))
        c == JSONParse(AttrOrEmpty(canvas.colors)) IN
    [ ok |-> l.ok /\ v.ok /\ c.ok, labels |-> l.v, values |-> v.v,
      colors |-> c.v ]

\* The forEach callback on the i-th dashboard canvas: it returns without a
\* chart ("skip"), creates one ("chart"), or throws a TypeError ("throw")
DashboardCanvas(canvas, i) ==
    LET p == DashboardParse(canvas) IN
    IF ~p.ok THEN [ kind |-> "skip", chart |-> NoChart ]
    ELSE IF ~HasLength(p.labels) THEN [ kind |-> "throw", chart |-> NoChart ]
    ELSE IF Len(p.labels.items) = 0 THEN [ kind |-> "skip", chart |-> NoChart ]
    ELSE IF ~HasLength(p.values) THEN [ kind |-> "throw", chart |-> NoChart ]
    ELSE IF Len(p.values.items) = 0 THEN [ kind |-> "skip", chart |-> NoChart ]
    ELSE IF ~HasLength(p.colors) THEN [ kind |-> "throw", chart |-> NoChart ]
    ELSE [ kind |-> "chart",
           chart |-> [ adapter |-> "dashboard", el |-> "dash-" \o ToString(i),
                       labels |-> p.labels.items, values |-> p.values.items,
                       colors |-> IF Len(p.colors.items) > 0
                                  THEN p.colors.items ELSE DefaultColors ] ]

\* canvases.forEach(...) from the i-th canvas on; a throw ends the loop
RECURSIVE DashboardLoop(_, _, _)
DashboardLoop(canvases, i, acc) ==
    IF i > Len(canvases) THEN [ charts |-> acc, out |-> "returned" ]
    ELSE LET r == DashboardCanvas(canvases[i], i) IN
         IF r.kind = "throw" THEN [ charts |-> acc, out |-> "threw" ]
         ELSE DashboardLoop(canvases, i + 1,
                  IF r.kind = "chart" THEN Append(acc, r.chart) ELSE acc)

\* AUDIN.initDashboardCharts(container)
initDashboardCharts ==
    /\ chartOut.dashboard = "idle"
    /\ IF "Chart" \notin chartLib
       THEN /\ UNCHANGED charts
            /\ chartOut' = [ chartOut EXCEPT !.dashboard = "returned" ]
       ELSE LET r == DashboardLoop(dashCanvases, 1, << >>) IN
            /\ charts' = charts \o r.charts
            /\ chartOut' = [ chartOut EXCEPT !.dashboard = r.out ]
    /\ UNCHANGED <<chartLib, reportCanvas, dashCanvases, plotlyEls>>
    /\ UNCHANGED notChart

\* The try/catch of a Plotly element
PlotlyParse(el) ==
    LET l == JSONParse(AttrOrEmpty(el.labels))
        p == JSONParse(AttrOrEmpty(el.parents))
        v == JSONParse(AttrOrEmpty(el.values)) IN
    [ ok |-> l.ok /\ p.ok /\ v.ok, labels |-> l.v, parents |-> p.v,
      values |-> v.v ]

\* The forEach callback on the i-th Plotly element; the chart record keeps
\* the parents where the Chart.js ones keep the colors
PlotlyElement(el, i) ==
    LET p == PlotlyParse(el) IN
    IF ~p.ok THEN [ kind |-> "skip", chart |-> NoChart ]
    ELSE IF ~HasLength(p.labels) THEN [ kind |-> "throw", chart |-> NoChart ]
    ELSE IF Len(p.labels.items) = 0 THEN [ kind |-> "skip", chart |-> NoChart ]
    ELSE [ kind |-> "chart",
           chart |-> [ adapter |-> "plotly", el |-> "plot-" \o ToString(i),
                       labels |-> p.labels.items,
                       values |-> IF HasLength(p.values) THEN p.values.items
                                  ELSE << >>,
                       colors |-> IF HasLength(p.parents) THEN p.parents.items
                                  ELSE << >> ] ]

RECURSIVE PlotlyLoop(_, _, _)
PlotlyLoop(els, i, acc) ==
    IF i > Len(els) THEN [ charts |-> acc, out |-> "returned" ]
    ELSE LET r == PlotlyElement(els[i], i) IN
         IF r.kind = "throw" THEN [ charts |-> acc, out |-> "threw" ]
         ELSE PlotlyLoop(els, i + 1,
                  IF r.kind = "chart" THEN Append(acc, r.chart) ELSE acc)

\* AUDIN.initPlotlyCharts(container)
initPlotlyCharts ==
    /\ chartOut.plotly = "idle"
    /\ IF "Plotly" \notin chartLib
       THEN /\ UNCHANGED charts
            /\ chartOut' = [ chartOut EXCEPT !.plotly = "returned" ]
       ELSE LET r == PlotlyLoop(plotlyEls, 1, << >>) IN
            /\ charts' = charts \o r.charts
            /\ chartOut' = [ chartOut EXCEPT !.plotly = r.out ]
    /\ UNCHANGED <<chartLib, reportCanvas, dashCanvases, plotlyEls>>
    /\ UNCHANGED notChart

Attrs(texts) == { Undef } \cup { Str(x) : x \in texts }

ReportCanvases ==
    { [ present |-> FALSE, labels |-> Undef, values |-> Undef ] } \cup
    [ present : { TRUE },
      labels : Attrs({ JsonEmpty, JsonLabels, JsonMalformed }),
      values : Attrs({ JsonEmpty, JsonValues, JsonMalformed }) ]

DashCanvases ==
    [ labels : Attrs({ JsonLabels, JsonMalformed, JsonNull }),
      values : Attrs({ JsonValues, JsonMalformed }),
      colors : Attrs({ JsonColors, JsonMalformed }) ]

PlotlyEls ==
    [ labels : Attrs({ JsonLabels, JsonMalformed, JsonNull }),
      parents : Attrs({ JsonParents, JsonMalformed }),
      values : Attrs({ JsonValues, JsonMalformed }) ]

NoReportCanvases == [ i \in 1..2 |-> [ present |-> FALSE, labels |-> Undef,
                                       values |-> Undef ] ]

\* A document is a report page, a dashboard with Chart.js canvases or a
\* dashboard with Plotly elements; either library may have failed to load.
InitChart ==
    /\ chartLib \in SUBSET { "Chart", "Plotly" }
    /\ \/ /\ reportCanvas \in [ 1..2 -> ReportCanvases ]
          /\ "Plotly" \in chartLib
          /\ dashCanvases = << >>
          /\ plotlyEls = << >>
       \/ /\ reportCanvas = NoReportCanvases
          /\ "Plotly" \in chartLib
          /\ \E n \in 0..MaxChartEls : dashCanvases \in [ 1..n -> DashCanvases ]
          /\ plotlyEls = << >>
       \/ /\ reportCanvas = NoReportCanvases
          /\ "Chart" \in chartLib
          /\ dashCanvases = << >>
          /\ \E n \in 0..MaxChartEls : plotlyEls \in [ 1..n -> PlotlyEls ]
    /\ charts = << >>
    /\ chartOut = [ report |-> "idle", dashboard |-> "idle", plotly |-> "idle" ]
    /\ LoaderOff /\ GaugeOff /\ AccOff /\ TabOff
    /\ SidebarOff /\ DemoFormOff /\ FiltroOff /\ HamburgerOff
    /\ PaintChartsOff /\ CountersOff
    /\ UtilOff

NextChart ==
    \/ initReportCharts
    \/ initDashboardCharts
    \/ initPlotlyCharts

SpecChart == InitChart /\ [][NextChart]_vars

ChartsOf(adapter, el) ==
    { k \in 1..Len(charts) : charts[k].adapter = adapter /\ charts[k].el = el }

ReportMalformed(i) ==
    /\ reportCanvas[i].present
    /\ Malformed(reportCanvas[i].labels) \/ Malformed(reportCanvas[i].values)

DashMalformed(i) ==
    \/ Malformed(dashCanvases[i].labels)
    \/ Malformed(dashCanvases[i].values)
    \/ Malformed(dashCanvases[i].colors)

PlotlyMalformed(i) ==
    \/ Malformed(plotlyEls[i].labels)
    \/ Malformed(plotlyEls[i].parents)
    \/ Malformed(plotlyEls[i].values)

ReportRan == chartOut.report # "idle" /\ "Chart" \in chartLib
DashboardRan == chartOut.dashboard # "idle" /\ "Chart" \in chartLib
PlotlyRan == chartOut.plotly # "idle" /\ "Plotly" \in chartLib

\* An element the loop reached: no element before it made the callback throw
DashReached(i) ==
    \A j \in 1..(i - 1) : DashboardCanvas(dashCanvases[j], j).kind # "throw"

PlotlyReached(i) ==
    \A j \in 1..(i - 1) : PlotlyElement(plotlyEls[j], j).kind # "throw"

\* The report adapter on malformed data: one chart of the canvas, drawn with
\* the default labels and no values
ReportRendersDefaults ==
    ReportRan =>
        /\ chartOut.report = "returned"
        /\ \A i \in 1..2 :
             ReportMalformed(i) =>
                 /\ Cardinality(ChartsOf("report", ReportIds[i])) = 1
                 /\ \A k \in ChartsOf("report", ReportIds[i]) :
                      /\ charts[k].labels = ReportDefaultLabels(ReportIds[i])
                      /\ Len(charts[k].values) = 0

\* C10: when a data-attribute of a chart element is not valid JSON, every
\* adapter catches the error, replaces the data with empty defaults and
\* still renders that chart, neither throwing nor skipping it.
C10_MalformedRendersDefaults ==
    /\ ReportRendersDefaults
    /\ DashboardRan =>
         \A i \in 1..Len(dashCanvases) :
             (DashMalformed(i) /\ DashReached(i)) =>
                 ChartsOf("dashboard", "dash-" \o ToString(i)) # {}
    /\ PlotlyRan =>
         \A i \in 1..Len(plotlyEls) :
             (PlotlyMalformed(i) /\ PlotlyReached(i)) =>
                 ChartsOf("plotly", "plot-" \o ToString(i)) # {}

\* C10 amended: initReportCharts catches the parse error, replaces labels
\* and values with their defaults and still renders the chart;
\* initDashboardCharts and initPlotlyCharts catch it and skip that element
\* without a chart and without throwing, and go on to the elements after it.
C10_ReportDefaultsOthersSkip ==
    /\ ReportRendersDefaults
    /\ DashboardRan =>
         /\ \A i \in 1..Len(dashCanvases) :
              DashMalformed(i) =>
                  /\ ChartsOf("dashboard", "dash-" \o ToString(i)) = {}
                  /\ DashboardCanvas(dashCanvases[i], i).kind = "skip"
         /\ \A i \in 1..Len(dashCanvases) :
              (DashReached(i) /\ DashboardCanvas(dashCanvases[i], i).kind = "chart")
                  => Cardinality(ChartsOf("dashboard", "dash-" \o ToString(i))) = 1
         /\ chartOut.dashboard = "threw" =>
              \E i \in 1..Len(dashCanvases) : ~DashMalformed(i)
                  /\ DashboardCanvas(dashCanvases[i], i).kind = "throw"
    /\ PlotlyRan =>
         /\ \A i \in 1..Len(plotlyEls) :
              PlotlyMalformed(i) =>
                  /\ ChartsOf("plotly", "plot-" \o ToString(i)) = {}
                  /\ PlotlyElement(plotlyEls[i], i).kind = "skip"
         /\ \A i \in 1..Len(plotlyEls) :
              (PlotlyReached(i) /\ PlotlyElement(plotlyEls[i], i).kind = "chart")
                  => Cardinality(ChartsOf("plotly", "plot-" \o ToString(i))) = 1
         /\ chartOut.plotly = "threw" =>
              \E i \in 1..Len(plotlyEls) : ~PlotlyMalformed(i)
                  /\ PlotlyElement(plotlyEls[i], i).kind = "throw"

C10_Witness ==
    /\ DashboardRan
    /\ chartOut.dashboard = "returned"
    /\ Len(dashCanvases) = MaxChartEls
    /\ Malformed(dashCanvases[1].colors)
    /\ ~Malformed(dashCanvases[1].labels)
    /\ ~Malformed(dashCanvases[1].values)
    /\ ChartsOf("dashboard", "dash-1") = {}
    /\ ChartsOf("dashboard", "dash-" \o ToString(MaxChartEls)) # {}

-----------------------------------------------------------------------------
(* Sidebar: main.js, the menu toggle and its persisted state *)

MobileMaxWidth == 480

\* isMobile()
isMobile(w) == w <= MobileMaxWidth

SideWidths == (MobileMaxWidth - WidthMargin)..(MobileMaxWidth + WidthMargin)

\* The keys of localStorage: the script's own and one of another script
SideKeys == { "menuClosed", "theme" }

\* What localStorage holds under a key: null when absent, else a string
SideStored == { Null, Str("true"), Str("false"), Str("1") }

\* localStorage.setItem(key, value): the value is stored as a string
SideSetItem(store, key, b) ==
    [ store EXCEPT ![key] = Str(IF b THEN "true" ELSE "false") ]

\* The statements run when the script is loaded (restore of the state)
SideRestore(st) ==
    IF isMobile(st.width)
    THEN [ st EXCEPT !.nav = FALSE, !.main = FALSE ]
    ELSE IF st.store["menuClosed"] = Str("true")
    THEN [ st EXCEPT !.nav = TRUE, !.main = TRUE ]
    ELSE st

\* An onclick that reads isClosed before it toggles the classes
SideOnclickStale(st) ==
    LET t == [ st EXCEPT !.nav = ~st.nav, !.main = ~st.main ] IN
    IF ~isMobile(st.width)
    THEN [ t EXCEPT !.store = SideSetItem(st.store, "menuClosed", st.nav),
                    !.written = st.written \cup { "menuClosed" } ]
    ELSE t

\* toggle.onclick
SideOnclick(st) ==
    LET t == [ st EXCEPT !.nav = ~st.nav, !.main = ~st.main ] IN
    IF ~isMobile(st.width)
    THEN [ t EXCEPT !.store = SideSetItem(st.store, "menuClosed", t.nav),
                    !.written = st.written \cup { "menuClosed" } ]
    ELSE t

\* The user clicks the toggle
SideClick ==
    /\ sidebar' = [ SideOnclick(sidebar) EXCEPT
                      !.last = [ clicked |-> TRUE, width |-> sidebar.width,
                                 before |-> sidebar.store ] ]
    /\ UNCHANGED notSidebar

\* The window is resized
SideResize(w) ==
    /\ w # sidebar.width
    /\ sidebar' = [ sidebar EXCEPT !.width = w ]
    /\ UNCHANGED notSidebar

SideNoClick == [ clicked |-> FALSE, width |-> 0, before |-> << >> ]

\* The page is loaded again: the classes are those of the markup, the script
\* runs from its top, localStorage is kept
SideReload ==
    /\ sidebar.last.clicked
    /\ sidebar' = SideRestore([ sidebar EXCEPT !.nav = sidebar.markup.nav,
                                               !.main = sidebar.markup.main,
                                               !.last = SideNoClick ])
    /\ UNCHANGED notSidebar

InitSidebar ==
    /\ \E w \in SideWidths, store \in [ SideKeys -> SideStored ],
          mk \in [ nav : BOOLEAN, main : BOOLEAN ] :
         sidebar = SideRestore([ width |-> w, nav |-> mk.nav, main |-> mk.main,
                                 markup |-> mk, store |-> store,
                                 store0 |-> store, written |-> {},
                                 last |-> SideNoClick ])
    /\ CoreOff
    /\ DemoFormOff /\ FiltroOff /\ HamburgerOff /\ PaintChartsOff /\ CountersOff
    /\ UtilOff

NextSidebar ==
    \/ SideClick
    \/ \E w \in SideWidths : SideResize(w)
    \/ SideReload

SpecSidebar == InitSidebar /\ [][NextSidebar]_vars

\* C12: the sidebar script persists exactly one item, under the key
\* 'menuClosed' (no other key is written or changed), and after every click
\* on the toggle at a window width above 480 the stored value is 'true'
\* exactly when the navigation element carries the class 'active'.
C12_MenuClosedMirrorsActive ==
    /\ sidebar.written \subseteq { "menuClosed" }
    /\ \A k \in SideKeys :
         k # "menuClosed" => sidebar.store[k] = sidebar.store0[k]
    /\ ( sidebar.last.clicked /\ sidebar.last.width > MobileMaxWidth ) =>
           /\ sidebar.store["menuClosed"] \in { Str("true"), Str("false") }
           /\ sidebar.store["menuClosed"] = Str("true") <=> sidebar.nav

C12_Witness ==
    /\ sidebar.last.clicked
    /\ sidebar.last.width > MobileMaxWidth
    /\ sidebar.last.before["menuClosed"] = Str("true")
    /\ sidebar.store["menuClosed"] = Str("false")
    /\ ~sidebar.nav

-----------------------------------------------------------------------------
(* Demo form: AUDIN.initFormValidation *)

\* How the markup places a required field: in a '.audin-dash__form-group' of
\* its own with a '.audin-dash__form-error' element ("own") or without one
\* ("bare"), in the group of the field before it ("shared"), or in no group
FormLayouts == { "own", "bare", "shared", "none" }

\* field.closest('.audin-dash__form-group'): the group of field i, named by
\* the field that opens it; 0 when there is none
RECURSIVE FormGroupOf(_, _)
FormGroupOf(lay, i) ==
    IF lay[i] \in { "own", "bare" } THEN i
    ELSE IF lay[i] = "shared" /\ i > 1 THEN FormGroupOf(lay, i - 1)
    ELSE 0

\* group.querySelector('.audin-dash__form-error') finds an element
FormHasErrorEl(lay, g) == g # 0 /\ lay[g] = "own"

\* field.checkValidity() of a required text field
checkValidity(v) == v # ""

\* field.validationMessage, the browser's text for a missing value
ValidationMessage == "Preencha este campo."

ConfirmationText ==
    "Sugestao registrada com sucesso! Esta e uma versao demonstrativa. "
    \o "Para participar oficialmente, use o formulario do Google Forms acima."

\* validateField(field): the state after it, its result in st.ret
validateField(st, i) ==
    LET g == FormGroupOf(st.lay, i) IN
    IF ~checkValidity(st.value[i])
    THEN [ st EXCEPT !.groupErr = IF g # 0 THEN [ @ EXCEPT ![g] = TRUE ] ELSE @,
                     !.errText = IF FormHasErrorEl(st.lay, g)
                                 THEN [ @ EXCEPT ![g] = ValidationMessage ] ELSE @,
                     !.ret = FALSE ]
    ELSE [ st EXCEPT !.groupErr = IF g # 0 THEN [ @ EXCEPT ![g] = FALSE ] ELSE @,
                     !.errText = IF FormHasErrorEl(st.lay, g)
                                 THEN [ @ EXCEPT ![g] = "" ] ELSE @,
                     !.ret = TRUE ]

\* fields.forEach(field => { if (!validateField(field)) isValid = false })
\* from field i on; isValid is kept in st.isValid
RECURSIVE FormValidateAll(_, _)
FormValidateAll(st, i) ==
    IF i > Len(st.value) THEN st
    ELSE LET t == validateField(st, i) IN
         FormValidateAll([ t EXCEPT !.isValid = st.isValid /\ t.ret ], i + 1)

\* form.querySelector('.audin-dash__form-group--error [required]'): the
\* first required field, in document order, inside a group marked as error
FormFirstInErrorGroup(st) ==
    LET hit == { i \in 1..Len(st.value) :
                   FormGroupOf(st.lay, i) # 0
                   /\ st.groupErr[FormGroupOf(st.lay, i)] } IN
    IF hit = {} THEN 0 ELSE CHOOSE i \in hit : \A j \in hit : i <= j

\* element.focus(): the field that had focus gets its blur handler run
FormFocusField(st, i) ==
    IF st.focus \notin { 0, i }
    THEN [ validateField(st, st.focus) EXCEPT !.focus = i ]
    ELSE [ st EXCEPT !.focus = i ]

\* showSubmitConfirmation(form): the alert is inserted after the form, the
\* form is reset and hidden
showSubmitConfirmation(st) ==
    [ st EXCEPT !.confirm = Append(@, ConfirmationText),
                !.value = [ i \in 1..Len(st.value) |-> "" ],
                !.display = "none" ]

\* The submit handler
FormOnSubmit(st) ==
    LET t == FormValidateAll([ st EXCEPT !.isValid = TRUE ], 1) IN
    IF t.isValid THEN showSubmitConfirmation(t)
    ELSE LET firstInvalid == FormFirstInErrorGroup(t) IN
         IF firstInvalid # 0 THEN FormFocusField(t, firstInvalid) ELSE t

\* An input handler that removes the error class and leaves the text
FormOnInputKeepsText(st, i) ==
    LET g == FormGroupOf(st.lay, i) IN
    [ st EXCEPT !.groupErr = IF g # 0 THEN [ @ EXCEPT ![g] = FALSE ] ELSE @ ]

\* The input handler of field i
FormOnInput(st, i) ==
    LET g == FormGroupOf(st.lay, i) IN
    [ st EXCEPT !.groupErr = IF g # 0 THEN [ @ EXCEPT ![g] = FALSE ] ELSE @,
                !.errText = IF FormHasErrorEl(st.lay, g)
                            THEN [ @ EXCEPT ![g] = "" ] ELSE @ ]

FormNoSubmit == [ submitted |-> FALSE, valid |-> << >>, confirmBefore |-> 0 ]

FormValues == { "", "abc" }

\* The user submits the form (Enter in a field, or the submit button)
FormSubmit ==
    /\ demoForm.display # "none"
    /\ demoForm' = [ FormOnSubmit(demoForm) EXCEPT
                       !.last = [ submitted |-> TRUE,
                                  valid |-> [ i \in 1..Len(demoForm.value) |->
                                                checkValidity(demoForm.value[i]) ],
                                  confirmBefore |-> Len(demoForm.confirm) ] ]
    /\ UNCHANGED notDemoForm

\* The user edits the field that has focus
FormInput(i, v) ==
    /\ demoForm.display # "none"
    /\ i \in 1..Len(demoForm.value)
    /\ demoForm.focus = i
    /\ v # demoForm.value[i]
    /\ demoForm' = [ FormOnInput([ demoForm EXCEPT !.value[i] = v ], i)
                       EXCEPT !.last = FormNoSubmit ]
    /\ UNCHANGED notDemoForm

\* The user moves focus to field i, or out of the fields (i = 0)
FormFocus(i) ==
    /\ demoForm.display # "none"
    /\ i \in 0..Len(demoForm.value)
    /\ demoForm.focus # i
    /\ demoForm' = [ FormFocusField(demoForm, i) EXCEPT !.last = FormNoSubmit ]
    /\ UNCHANGED notDemoForm

InitDemoForm ==
    /\ \E n \in 0..MaxFields :
         \E lay \in [ 1..n -> FormLayouts ] :
            /\ n >= 1 => lay[1] # "shared"
            /\ demoForm = [ lay |-> lay,
                         value |-> [ i \in 1..n |-> "" ],
                         groupErr |-> [ i \in 1..n |-> FALSE ],
                         errText |-> [ i \in 1..n |-> "" ],
                         focus |-> 0, display |-> "", confirm |-> << >>,
                         ret |-> TRUE, isValid |-> TRUE,
                         last |-> FormNoSubmit ]
    /\ CoreOff
    /\ SidebarOff /\ FiltroOff /\ HamburgerOff /\ PaintChartsOff /\ CountersOff
    /\ UtilOff

NextDemoForm ==
    \/ FormSubmit
    \/ \E i \in 1..MaxFields, v \in FormValues : FormInput(i, v)
    \/ \E i \in 0..MaxFields : FormFocus(i)

SpecDemoForm == InitDemoForm /\ [][NextDemoForm]_vars

FormAllValid == \A i \in 1..Len(demoForm.last.valid) : demoForm.last.valid[i]

FormFirstInvalid ==
    CHOOSE i \in 1..Len(demoForm.last.valid) :
        /\ ~demoForm.last.valid[i]
        /\ \A j \in 1..(i - 1) : demoForm.last.valid[j]

\* C16: on submit the confirmation is inserted and the form is reset and
\* hidden if and only if every required field passes checkValidity();
\* otherwise no confirmation is inserted, the form stays visible, and focus
\* moves to the first invalid required field.
C16_SubmitConfirmsIffAllValid ==
    demoForm.last.submitted =>
        IF FormAllValid
        THEN /\ Len(demoForm.confirm) = demoForm.last.confirmBefore + 1
             /\ \A i \in 1..Len(demoForm.value) : demoForm.value[i] = ""
             /\ demoForm.display = "none"
        ELSE /\ Len(demoForm.confirm) = demoForm.last.confirmBefore
             /\ demoForm.display # "none"
             /\ demoForm.focus = FormFirstInvalid

\* The texts the scripts have written into the page as messages: the
\* confirmation alerts and the contents of the error elements
FormMessages ==
    { demoForm.confirm[k] : k \in 1..Len(demoForm.confirm) }
    \cup { demoForm.errText[g] : g \in { h \in 1..Len(demoForm.errText) :
                                           demoForm.errText[h] # "" } }

\* The loader and the demo form side by side: a page load of the data
\* loader, or a page with the demo form
InitMessages ==
    \/ /\ LoaderIdle /\ InitPages
       /\ GaugeOff /\ AccOff /\ TabOff /\ ChartOff
       /\ SidebarOff /\ DemoFormOff /\ FiltroOff /\ HamburgerOff
       /\ PaintChartsOff /\ CountersOff
       /\ UtilOff
    \/ InitDemoForm

NextMessages ==
    \/ Next
    \/ (DOMAIN demoForm # {} /\ NextDemoForm)

SpecMessages == InitMessages /\ [][NextMessages]_vars

\* A failed fetch or parse left the page as the static markup has it
LoaderFailureSilent ==
    \A c \in Slots :
        (calls[c].err /\ calls[c].pc = "done") =>
            /\ errorLog > 0
            /\ text = [ i \in AllIds |-> StaticText ]
            /\ width = [ i \in AllIds |-> StaticWidth ]
            /\ gaugeD = StaticPath

\* C13: the only message the scripts ever make visible is the success
\* confirmation inserted after a valid demo-form submission; no other
\* operation (data fetch failure, form field validation) writes an error
\* message into the page.
C13_OnlyConfirmationShown ==
    /\ LoaderFailureSilent
    /\ DOMAIN demoForm # {} => FormMessages \subseteq { ConfirmationText }

\* C13 amended: the only message texts the scripts write into the page are
\* the success confirmation inserted after a valid demo-form submission and
\* the browser's validation message, which validateField writes into the
\* error element of a required field's group that it marks as error and
\* which is cleared on input and on revalidation; a data fetch failure is
\* logged to the console and writes nothing into the page.
C13_ConfirmationAndValidationOnly ==
    /\ LoaderFailureSilent
    /\ DOMAIN demoForm # {} =>
         /\ FormMessages \subseteq { ConfirmationText, ValidationMessage }
         /\ \A g \in 1..Len(demoForm.errText) :
              demoForm.errText[g] # "" =>
                  /\ FormHasErrorEl(demoForm.lay, g)
                  /\ demoForm.groupErr[g]
                  /\ \E i \in 1..Len(demoForm.value) :
                       FormGroupOf(demoForm.lay, i) = g
         /\ Len(demoForm.confirm) <= 1
         /\ Len(demoForm.confirm) = 1 =>
              /\ demoForm.display = "none"
              /\ \A i \in 1..Len(demoForm.value) : demoForm.value[i] = ""

C13_Witness ==
    /\ DOMAIN demoForm # {}
    /\ demoForm.last.submitted
    /\ ValidationMessage \in FormMessages
    /\ Len(demoForm.value) = MaxFields
    /\ demoForm.value[1] = "abc"

-----------------------------------------------------------------------------
(* Report filter: AUDIN.initFiltros and filtrar *)

UpperLetters == "ABCDEFGHIJKLMNOPQRSTUVWXYZ"
LowerLetters == "abcdefghijklmnopqrstuvwxyz"

LowerChar(ch) ==
    LET hit == { k \in 1..Len(UpperLetters) : SubSeq(UpperLetters, k, k) = ch } IN
    IF hit = {} THEN ch
    ELSE LET k == CHOOSE j \in hit : TRUE IN SubSeq(LowerLetters, k, k)

\* String.prototype.toLowerCase
RECURSIVE ToLowerCase(_)
ToLowerCase(str) ==
    IF Len(str) = 0 THEN ""
    ELSE LowerChar(SubSeq(str, 1, 1)) \o ToLowerCase(SubSeq(str, 2, Len(str)))

\* String.prototype.trim
RECURSIVE Trim(_)
Trim(str) ==
    IF Len(str) = 0 THEN ""
    ELSE IF SubSeq(str, 1, 1) = " " THEN Trim(SubSeq(str, 2, Len(str)))
    ELSE IF SubSeq(str, Len(str), Len(str)) = " "
    THEN Trim(SubSeq(str, 1, Len(str) - 1))
    ELSE str

\* The report items a list may hold: their data-periodo, data-tipo and
\* data-busca attributes, any of them possibly absent
FiltroItems ==
    { [ periodo |-> Str("2024"), tipo |-> Str("auditoria"),
        busca |-> Str("Relatorio Anual 2024") ],
      [ periodo |-> Str("2025"), tipo |-> Str("nota"),
        busca |-> Str("nota tecnica") ],
      [ periodo |-> Str("2025"), tipo |-> Str("auditoria"), busca |-> Undef ],
      [ periodo |-> Undef, tipo |-> Undef, busca |-> Str("Plano anual") ] }

FiltroPeriodos == { "", "2024", "2025" }
FiltroTipos == { "", "auditoria", "nota" }
FiltroBuscas == { "", " ANUAL ", "xyz" }

\* matchPeriodo || matchTipo || matchBusca instead of the conjunction
FiltroItemMatchesAny(item, periodo, tipo, busca) ==
    \/ (periodo = "" \/ item.periodo = Str(periodo))
    \/ (tipo = "" \/ item.tipo = Str(tipo))
    \/ (busca = "" \/ Includes(ToLowerCase(IF item.busca.t = "str"
                                            THEN item.busca.v ELSE ""), busca))

\* matchPeriodo && matchTipo && matchBusca of the forEach callback
FiltroItemMatches(item, periodo, tipo, busca) ==
    /\ (periodo = "" \/ item.periodo = Str(periodo))
    /\ (tipo = "" \/ item.tipo = Str(tipo))
    /\ (busca = "" \/ Includes(ToLowerCase(IF item.busca.t = "str"
                                            THEN item.busca.v ELSE ""), busca))

\* filtrar()
filtrar(st) ==
    LET periodo == IF st.hasPeriodo THEN st.periodo ELSE ""
        tipo == IF st.hasTipo THEN st.tipo ELSE ""
        busca == IF st.hasBusca THEN Trim(ToLowerCase(st.busca)) ELSE ""
        hidden == [ i \in 1..Len(st.items) |->
                      ~FiltroItemMatches(st.items[i], periodo, tipo, busca) ]
        visiveis == Cardinality({ i \in 1..Len(st.items) : ~hidden[i] }) IN
    [ st EXCEPT !.hidden = hidden,
                !.vazioHidden = IF st.hasVazio THEN visiveis # 0 ELSE @,
                !.ran = [ periodo |-> periodo, tipo |-> tipo,
                          busca |-> IF st.hasBusca THEN st.busca ELSE "" ] ]

\* change on #filtro-periodo
FiltroChangePeriodo(v) ==
    /\ filtro.hasPeriodo
    /\ v # filtro.periodo
    /\ filtro' = filtrar([ filtro EXCEPT !.periodo = v ])
    /\ UNCHANGED notFiltro

\* change on #filtro-tipo
FiltroChangeTipo(v) ==
    /\ filtro.hasTipo
    /\ v # filtro.tipo
    /\ filtro' = filtrar([ filtro EXCEPT !.tipo = v ])
    /\ UNCHANGED notFiltro

\* input on #busca-relatorio: the debounced call is (re)scheduled
FiltroInput(v) ==
    /\ filtro.hasBusca
    /\ v # filtro.busca
    /\ filtro' = [ filtro EXCEPT !.busca = v, !.timer = TRUE ]
    /\ UNCHANGED notFiltro

\* The debounce timer fires
FiltroTimerFires ==
    /\ filtro.timer
    /\ filtro' = filtrar([ filtro EXCEPT !.timer = FALSE ])
    /\ UNCHANGED notFiltro

FiltroNotRun == [ periodo |-> "-", tipo |-> "-", busca |-> "-" ]

InitFiltro ==
    /\ \E n \in 0..MaxItems :
         \E items \in [ 1..n -> FiltroItems ],
            ctl \in [ periodo : BOOLEAN, tipo : BOOLEAN, busca : BOOLEAN,
                      vazio : BOOLEAN ] :
            filtro = [ hasPeriodo |-> ctl.periodo, hasTipo |-> ctl.tipo,
                       hasBusca |-> ctl.busca, hasVazio |-> ctl.vazio,
                       periodo |-> "", tipo |-> "", busca |-> "",
                       items |-> items,
                       hidden |-> [ i \in 1..n |-> FALSE ],
                       vazioHidden |-> TRUE,
                       timer |-> FALSE, ran |-> FiltroNotRun ]
    /\ CoreOff
    /\ SidebarOff /\ DemoFormOff /\ HamburgerOff /\ PaintChartsOff /\ CountersOff
    /\ UtilOff

NextFiltro ==
    \/ \E v \in FiltroPeriodos : FiltroChangePeriodo(v)
    \/ \E v \in FiltroTipos : FiltroChangeTipo(v)
    \/ \E v \in FiltroBuscas : FiltroInput(v)
    \/ FiltroTimerFires

SpecFiltro == InitFiltro /\ [][NextFiltro]_vars

\* The attribute of an item equals the selected value
FiltroAttrIs(a, v) == a.t = "str" /\ a.v = v

\* The item's data-busca contains the search text, letter case and the
\* blanks around the search text aside
FiltroTextHas(a, q) ==
    LET needle == Trim(ToLowerCase(q)) IN
    \/ needle = ""
    \/ /\ a.t = "str"
       /\ \E i \in 1..Len(a.v) :
            i + Len(needle) - 1 <= Len(a.v)
            /\ ToLowerCase(SubSeq(a.v, i, i + Len(needle) - 1)) = needle

FiltroRan == filtro.ran # FiltroNotRun

\* C17: after each run of the filter an item is visible exactly when it
\* matches the selected period, the selected type and the search text (an
\* empty selector matching everything), and the empty-list message is
\* visible exactly when no item is visible.
C17_VisibleIffMatches ==
    FiltroRan =>
        /\ \A i \in 1..Len(filtro.items) :
             ~filtro.hidden[i] <=>
                 /\ filtro.ran.periodo = ""
                      \/ FiltroAttrIs(filtro.items[i].periodo, filtro.ran.periodo)
                 /\ filtro.ran.tipo = ""
                      \/ FiltroAttrIs(filtro.items[i].tipo, filtro.ran.tipo)
                 /\ FiltroTextHas(filtro.items[i].busca, filtro.ran.busca)
        /\ filtro.hasVazio =>
             ( ~filtro.vazioHidden <=>
                 \A i \in 1..Len(filtro.items) : filtro.hidden[i] )

C17_Witness ==
    /\ FiltroRan
    /\ Len(filtro.items) = MaxItems
    /\ filtro.ran.busca = " ANUAL "
    /\ filtro.ran.periodo = "2024"
    /\ ~filtro.hidden[1]
    /\ filtro.hidden[MaxItems]
    /\ filtro.hasVazio /\ filtro.vazioHidden

-----------------------------------------------------------------------------
(* PAINT hamburger menu: AUDIN.initPaintHamburger *)

\* The element that has focus: the toggle, the close button, a nav link
\* ("link-k") or something else of the page
HamLink(k) == "link-" \o ToString(k)

HamFocusable(st) ==
    { "toggle", "body" }
    \cup (IF st.hasCloseBtn THEN { "close" } ELSE {})
    \cup { HamLink(k) : k \in 1..st.nLinks }

\* open()
HamOpen(st) ==
    [ st EXCEPT !.open = TRUE,
                !.expanded = "true",
                !.backdropHidden = IF st.hasBackdrop THEN FALSE ELSE @,
                !.overflow = IF st.hasContainer THEN "hidden" ELSE @,
                !.focus = IF st.hasCloseBtn THEN "close"
                          ELSE IF st.nLinks > 0 THEN HamLink(1)
                          ELSE @ ]

\* A close() that leaves aria-expanded as it is
HamCloseKeepsExpanded(st) ==
    [ st EXCEPT !.open = FALSE,
                !.backdropHidden = IF st.hasBackdrop THEN TRUE ELSE @,
                !.overflow = IF st.hasContainer THEN "" ELSE @,
                !.focus = "toggle" ]

\* close()
HamClose(st) ==
    [ st EXCEPT !.open = FALSE,
                !.expanded = "false",
                !.backdropHidden = IF st.hasBackdrop THEN TRUE ELSE @,
                !.overflow = IF st.hasContainer THEN "" ELSE @,
                !.focus = "toggle" ]

\* The keydown listener of the document and the click listener of a nav
\* link: close() if the menu is open
HamCloseIfOpen(st) == IF st.open THEN HamClose(st) ELSE st

HamEvent(ev, st) ==
    [ st EXCEPT !.last = [ event |-> ev, wasOpen |-> hamburger.open,
                           before |-> [ hamburger EXCEPT !.last = << >> ] ] ]

\* click on the toggle
HamToggleClick ==
    /\ hamburger' = HamEvent("toggle", HamOpen(hamburger))
    /\ UNCHANGED notHamburger

\* click on the close button
HamCloseClick ==
    /\ hamburger.hasCloseBtn
    /\ hamburger' = HamEvent("close", HamClose(hamburger))
    /\ UNCHANGED notHamburger

\* click on the backdrop
HamBackdropClick ==
    /\ hamburger.hasBackdrop
    /\ hamburger' = HamEvent("backdrop", HamClose(hamburger))
    /\ UNCHANGED notHamburger

\* keydown on the document
HamKeydown(key) ==
    /\ hamburger' = HamEvent(key, IF key = "Escape" THEN HamCloseIfOpen(hamburger)
                                  ELSE hamburger)
    /\ UNCHANGED notHamburger

\* click on the k-th nav link
HamLinkClick(k) ==
    /\ k \in 1..hamburger.nLinks
    /\ hamburger' = HamEvent("link", HamCloseIfOpen(hamburger))
    /\ UNCHANGED notHamburger

HamNoEvent == [ event |-> "none", wasOpen |-> FALSE, before |-> << >> ]

\* The user moves focus (Tab, or a click elsewhere)
HamFocusMove(e) ==
    /\ e \in HamFocusable(hamburger)
    /\ e # hamburger.focus
    /\ hamburger' = [ hamburger EXCEPT !.focus = e, !.last = HamNoEvent ]
    /\ UNCHANGED notHamburger

\* The markup: the menu closed, the backdrop (if any) hidden, aria-expanded
\* "false" or not set
InitHamburger ==
    /\ \E m \in [ hasBackdrop : BOOLEAN, hasCloseBtn : BOOLEAN,
                  hasContainer : BOOLEAN, nLinks : 0..MaxLinks,
                  expanded : { "false", "null" } ] :
         hamburger = [ open |-> FALSE, expanded |-> m.expanded,
                       hasBackdrop |-> m.hasBackdrop, backdropHidden |-> TRUE,
                       hasCloseBtn |-> m.hasCloseBtn,
                       hasContainer |-> m.hasContainer, overflow |-> "",
                       nLinks |-> m.nLinks, focus |-> "body",
                       last |-> HamNoEvent ]
    /\ CoreOff
    /\ SidebarOff /\ DemoFormOff /\ FiltroOff /\ PaintChartsOff /\ CountersOff
    /\ UtilOff

NextHamburger ==
    \/ HamToggleClick
    \/ HamCloseClick
    \/ HamBackdropClick
    \/ \E key \in { "Escape", "Enter" } : HamKeydown(key)
    \/ \E k \in 1..MaxLinks : HamLinkClick(k)
    \/ \E e \in { "toggle", "body", "close" } \cup { HamLink(k) : k \in 1..MaxLinks } :
         HamFocusMove(e)

SpecHamburger == InitHamburger /\ [][NextHamburger]_vars

\* The last event was one that closes the menu
HamClosed ==
    \/ hamburger.last.event \in { "close", "backdrop" }
    \/ hamburger.last.event \in { "Escape", "link" } /\ hamburger.last.wasOpen

\* C18: after any sequence of hamburger events the sidebar carries the open
\* class exactly when the toggle's aria-expanded is 'true' and exactly when
\* the backdrop is not hidden; Escape and nav-link clicks change nothing
\* while the menu is closed, and every close returns focus to the toggle.
C18_MenuStateInLockstep ==
    /\ hamburger.open <=> hamburger.expanded = "true"
    /\ hamburger.hasBackdrop => (hamburger.open <=> ~hamburger.backdropHidden)
    /\ (hamburger.last.event \in { "Escape", "link" } /\ ~hamburger.last.wasOpen) =>
          [ hamburger EXCEPT !.last = << >> ] = hamburger.last.before
    /\ HamClosed => (hamburger.focus = "toggle" /\ ~hamburger.open)

C18_Witness ==
    /\ hamburger.last.event = "Escape"
    /\ hamburger.last.wasOpen
    /\ hamburger.last.before.focus = "close"
    /\ hamburger.hasBackdrop /\ hamburger.backdropHidden
    /\ hamburger.focus = "toggle"
    /\ hamburger.expanded = "false"

-----------------------------------------------------------------------------
(* PAINT charts: AUDIN.initPaintCharts and initChartById *)

\* data-chart-id values with a builder
PaintBuilders == { "capacidade", "servicos-hh", "cronograma", "recomendacoes" }

\* data-chart-id of a canvas in the markup: a known id, an unknown id, or
\* no attribute
PaintChartIds == { "capacidade", "outro", "null" }

\* initChartById(canvas): the number of charts it creates on the canvas
initChartById(st, cv) ==
    IF st.chartId[cv] \in { "null", "" } \/ ~st.chartLib THEN 0
    ELSE IF st.chartId[cv] \notin PaintBuilders THEN 0
    ELSE 1

\* One entry of the callback that creates the chart whatever
\* canvas.dataset.chartInit says
PaintEntryNoGuard(st, o, e) ==
    IF ~e.isIntersecting THEN st
    ELSE LET cv == st.canvasOf[e.target]
             drawn ==
                 IF cv # 0
                 THEN [ st EXCEPT !.chartInit[cv] = TRUE,
                                  !.created[cv] = @ + initChartById(st, cv) ]
                 ELSE st
         IN  [ drawn EXCEPT !.observers[o] = @ \ { e.target },
                            !.reported = @ \cup { e.target } ]

\* One entry of the observer's callback
PaintEntry(st, o, e) ==
    IF ~e.isIntersecting THEN st
    ELSE LET cv == st.canvasOf[e.target]
             drawn ==
                 IF cv # 0 /\ ~st.chartInit[cv]
                 THEN [ st EXCEPT !.chartInit[cv] = TRUE,
                                  !.created[cv] = @ + initChartById(st, cv) ]
                 ELSE st
         IN  [ drawn EXCEPT !.observers[o] = @ \ { e.target },
                            !.reported = @ \cup { e.target } ]

\* entries.forEach(...), the entries in the order of their targets
RECURSIVE PaintEntries(_, _, _, _)
PaintEntries(st, o, entries, c) ==
    IF c > st.n THEN st
    ELSE IF c \in DOMAIN entries
         THEN PaintEntries(PaintEntry(st, o, [ target |-> c,
                                               isIntersecting |-> entries[c] ]),
                           o, entries, c + 1)
         ELSE PaintEntries(st, o, entries, c + 1)

\* AUDIN.initPaintCharts(scope)
initPaintCharts ==
    /\ Len(paintCharts.observers) < MaxPaintInits
    /\ paintCharts' =
         IF paintCharts.n = 0 \/ ~paintCharts.chartLib THEN paintCharts
         ELSE [ paintCharts EXCEPT
                  !.observers = Append(@, 1..paintCharts.n) ]
    /\ UNCHANGED notPaintCharts

\* The callback of observer o, with one entry for some of the targets it
\* observes or has observed
PaintCallback(o, targets) ==
    /\ o \in 1..Len(paintCharts.observers)
    /\ targets # {}
    /\ targets \subseteq 1..paintCharts.n
    /\ \E entries \in [ targets -> BOOLEAN ] :
         paintCharts' = PaintEntries(paintCharts, o, entries, 1)
    /\ UNCHANGED notPaintCharts

\* The markup: container c holds its own canvas (c), the canvas of the
\* container it is nested around (c + 1), or none (0)
InitPaintCharts ==
    /\ \E n \in 0..MaxContainers, lib \in BOOLEAN :
       \E cvs \in [ 1..n -> 0..n ], ids \in [ 1..n -> PaintChartIds ] :
         /\ \A c \in 1..n : cvs[c] \in { 0, c, c + 1 }
         /\ \A c \in 1..n : (\A d \in 1..n : cvs[d] # c) => ids[c] = "null"
         /\ paintCharts = [ n |-> n, chartLib |-> lib, canvasOf |-> cvs,
                            chartId |-> ids,
                            chartInit |-> [ c \in 1..n |-> FALSE ],
                            created |-> [ c \in 1..n |-> 0 ],
                            observers |-> << >>, reported |-> {} ]
    /\ CoreOff
    /\ SidebarOff /\ DemoFormOff /\ FiltroOff /\ HamburgerOff /\ CountersOff
    /\ UtilOff

NextPaintCharts ==
    \/ initPaintCharts
    \/ \E o \in 1..MaxPaintInits, targets \in SUBSET (1..MaxContainers) :
         PaintCallback(o, targets)

SpecPaintCharts == InitPaintCharts /\ [][NextPaintCharts]_vars

\* C19: a PAINT chart is created only after its container has been reported
\* as intersecting the viewport, and across any sequence of intersection
\* callbacks and repeated AUDIN.initPaintCharts calls on the same scope each
\* canvas gets a chart created at most once.
C19_ChartOnceAfterIntersecting ==
    \A cv \in 1..paintCharts.n :
        /\ paintCharts.created[cv] <= 1
        /\ paintCharts.created[cv] > 0 =>
              \E c \in paintCharts.reported : paintCharts.canvasOf[c] = cv

C19_Witness ==
    /\ Len(paintCharts.observers) = 2
    /\ paintCharts.n = 2
    /\ paintCharts.created[1] = 1
    /\ 1 \notin paintCharts.observers[1]
    /\ 1 \notin paintCharts.observers[2]
    /\ paintCharts.created[2] = 0
    /\ paintCharts.canvasOf[2] = 2
    /\ paintCharts.chartId[2] = "capacidade"

-----------------------------------------------------------------------------
(* Animated counters: AUDIN.initCounters and animateCounter *)

CounterDigit(ch) ==
    CASE ch = "0" -> 0 [] ch = "1" -> 1 [] ch = "2" -> 2 [] ch = "3" -> 3
      [] ch = "4" -> 4 [] ch = "5" -> 5 [] ch = "6" -> 6 [] ch = "7" -> 7
      [] ch = "8" -> 8 [] ch = "9" -> 9 [] OTHER -> -1

\* parseInt(s, 10) of a string without sign or leading blanks: the value of
\* its leading digits, acc so far
RECURSIVE ParseIntFrom(_, _)
ParseIntFrom(s, acc) ==
    IF s = "" \/ CounterDigit(SubSeq(s, 1, 1)) < 0 THEN acc
    ELSE ParseIntFrom(SubSeq(s, 2, Len(s)),
                      acc * 10 + CounterDigit(SubSeq(s, 1, 1)))

ParseInt(s) == ParseIntFrom(s, 0)

\* data-count-to and data-count-suffix of the markup ("null": no attribute)
CountToValues == { "42", "7.5" }
CountSuffixValues == { "null", "%" }

\* el.dataset.countSuffix || ''
CounterSuffix(a) == IF a \in { "null", "" } THEN "" ELSE a

\* Math.floor(eased * target) with eased = 1 - (1 - progress)^3 and
\* progress = e / AnimationFrames
CounterCurrent(target, e) ==
    LET d == AnimationFrames
        r == d - e
    IN  (target * (d * d * d - r * r * r)) \div (d * d * d)

\* step(timestamp) of animation a, dt frame intervals after the frame before
CounterStep(st, a, dt) ==
    LET el == a.el
        target == ParseInt(st.countTo[el])
        suffix == CounterSuffix(st.countSuffix[el])
        elapsed == IF ~a.started THEN 0 ELSE a.elapsed + dt
        e == IF elapsed < AnimationFrames THEN elapsed ELSE AnimationFrames
    IN  IF e < AnimationFrames
        THEN [ st EXCEPT
                 !.text[el] = ToString(CounterCurrent(target, e)) \o suffix,
                 !.anims = Append(@, [ el |-> el, started |-> TRUE,
                                       elapsed |-> elapsed ]) ]
        ELSE [ st EXCEPT
                 !.text[el] = ToString(target) \o suffix,
                 !.ended[el] = Append(@, ToString(target) \o suffix) ]

\* The animation frame callbacks of one frame, in the order they were requested
RECURSIVE CounterSteps(_, _, _)
CounterSteps(st, pending, dt) ==
    IF pending = << >> THEN st
    ELSE CounterSteps(CounterStep(st, Head(pending), dt), Tail(pending), dt)

\* animateCounter(el)
animateCounter(st, el) ==
    [ st EXCEPT !.starts[el] = @ + 1,
                !.anims = Append(@, [ el |-> el, started |-> FALSE,
                                      elapsed |-> 0 ]) ]

\* One entry of observer o's callback for target el
CounterEntry(st, o, el, isIntersecting) ==
    IF ~isIntersecting THEN st
    ELSE [ animateCounter(st, el) EXCEPT !.observers[o] = @ \ { el } ]

\* entries.forEach(...), the entries in the order of their targets
RECURSIVE CounterEntries(_, _, _, _)
CounterEntries(st, o, entries, el) ==
    IF el > st.n THEN st
    ELSE IF el \in DOMAIN entries
         THEN CounterEntries(CounterEntry(st, o, el, entries[el]), o, entries, el + 1)
         ELSE CounterEntries(st, o, entries, el + 1)

\* AUDIN.initCounters(scope)
initCounters ==
    /\ Len(counters.observers) < MaxCounterInits
    /\ counters' =
         IF counters.n = 0 THEN counters
         ELSE [ counters EXCEPT !.observers = Append(@, 1..counters.n) ]
    /\ UNCHANGED notCounters

\* The callback of observer o, with one entry for some of its targets
CounterCallback(o, targets) ==
    /\ o \in 1..Len(counters.observers)
    /\ targets # {}
    /\ targets \subseteq counters.observers[o]
    /\ \E entries \in [ targets -> BOOLEAN ] :
         counters' = CounterEntries(counters, o, entries, 1)
    /\ UNCHANGED notCounters

\* An animation frame, dt frame intervals after the one before
CounterFrame(dt) ==
    /\ counters.anims # << >>
    /\ counters' = CounterSteps([ counters EXCEPT !.anims = << >> ],
                                counters.anims, dt)
    /\ UNCHANGED notCounters

CounterFrames == \E dt \in 1..MaxFrameSkip : CounterFrame(dt)

InitCounters ==
    /\ \E n \in 0..MaxCounters :
       \E to \in [ 1..n -> CountToValues ], sx \in [ 1..n -> CountSuffixValues ] :
         counters = [ n |-> n, countTo |-> to, countSuffix |-> sx,
                      text |-> [ el \in 1..n |-> "0" ],
                      observers |-> << >>, anims |-> << >>,
                      starts |-> [ el \in 1..n |-> 0 ],
                      ended |-> [ el \in 1..n |-> << >> ] ]
    /\ CoreOff
    /\ SidebarOff /\ DemoFormOff /\ FiltroOff /\ HamburgerOff /\ PaintChartsOff
    /\ UtilOff

NextCounters ==
    \/ initCounters
    \/ \E o \in 1..MaxCounterInits, targets \in SUBSET (1..MaxCounters) :
         CounterCallback(o, targets)
    \/ CounterFrames

SpecCounters == InitCounters /\ [][NextCounters]_vars

\* requestAnimationFrame: a requested frame callback is eventually run
FairSpecCounters == SpecCounters /\ WF_vars(CounterFrames)

CounterAnimating(el) ==
    /\ el \in 1..counters.n
    /\ \E i \in 1..Len(counters.anims) : counters.anims[i].el = el

CounterAtRest(el) ==
    /\ el \in 1..counters.n
    /\ ~CounterAnimating(el)
    /\ Len(counters.ended[el]) = counters.starts[el]

CounterOnceOnTarget ==
    \A el \in 1..counters.n :
        /\ counters.starts[el] <= 1
        /\ \A i \in 1..Len(counters.ended[el]) :
              counters.ended[el][i] =
                  ToString(ParseInt(counters.countTo[el]))
                      \o CounterSuffix(counters.countSuffix[el])
        /\ CounterAtRest(el) /\ counters.starts[el] > 0 =>
              counters.text[el] = counters.ended[el][1]

\* C20: each animated counter starts animating only once, when it first
\* intersects the viewport, its animation terminates, and when it terminates
\* the element's text is exactly the integer target followed by the suffix.
C20_AnimatesOnceEndsOnTarget ==
    /\ []CounterOnceOnTarget
    /\ \A el \in 1..MaxCounters : CounterAnimating(el) ~> CounterAtRest(el)

-----------------------------------------------------------------------------
(* AUDIN.debounce(fn, delay) *)

\* var wait = delay || 300
DebounceDefault == 300

DebounceWait(delay) == IF delay = 0 THEN DebounceDefault ELSE delay

\* The delay argument, in milliseconds
DebounceDelays == { 0, 200 }

DebounceArgs == { "a", "b" }

NoTimer == [ set |-> FALSE, due |-> 0, args |-> "" ]

\* A call of the returned function: clearTimeout(timer), timer = setTimeout(...)
DebounceCall(args) ==
    /\ Len(debounced.calls) < MaxDebounceCalls
    /\ debounced' =
         [ debounced EXCEPT
             !.timer = [ set |-> TRUE,
                         due |-> debounced.now + DebounceWait(debounced.delay),
                         args |-> args ],
             !.calls = Append(@, [ at |-> debounced.now, args |-> args ]) ]
    /\ UNCHANGED notDebounced

\* The timeout callback: fn.apply(context, args)
DebounceTimerFires ==
    /\ debounced.timer.set
    /\ debounced.now >= debounced.timer.due
    /\ debounced' =
         [ debounced EXCEPT
             !.timer = NoTimer,
             !.execs = Append(@, [ at |-> debounced.now,
                                   args |-> debounced.timer.args ]) ]
    /\ UNCHANGED notDebounced

\* Time passes, up to the moment the pending timeout is due
DebounceTick ==
    /\ debounced.now < DebounceMaxTime
    /\ debounced.timer.set => debounced.now < debounced.timer.due
    /\ debounced' = [ debounced EXCEPT !.now = @ + DebounceStep ]
    /\ UNCHANGED notDebounced

InitDebounce ==
    /\ \E delay \in DebounceDelays :
         debounced = [ delay |-> delay, now |-> 0, timer |-> NoTimer,
                       calls |-> << >>, execs |-> << >> ]
    /\ CoreOff /\ WidgetOff /\ PaintDataOff /\ ScrollSpyOff

NextDebounce ==
    \/ \E args \in DebounceArgs : DebounceCall(args)
    \/ DebounceTimerFires
    \/ DebounceTick

SpecDebounce == InitDebounce /\ [][NextDebounce]_vars

\* Call i is the last of its burst: no call follows it by less than delay
DebounceBurstEnd(i) ==
    \/ i = Len(debounced.calls)
    \/ debounced.calls[i + 1].at - debounced.calls[i].at >= debounced.delay

\* C22: for a function wrapped by AUDIN.debounce(fn, delay), any burst of
\* calls in which each call follows the previous one by less than delay
\* results in exactly one execution of fn, occurring delay after the last
\* call of the burst and receiving that last call's arguments.
C22_BurstRunsOnceAfterDelay ==
    /\ \A i \in 1..Len(debounced.calls) :
         (DebounceBurstEnd(i)
            /\ debounced.calls[i].at + debounced.delay < debounced.now) =>
             \E k \in 1..Len(debounced.execs) :
                 debounced.execs[k] =
                     [ at |-> debounced.calls[i].at + debounced.delay,
                       args |-> debounced.calls[i].args ]
    /\ \A k \in 1..Len(debounced.execs) :
         \E i \in 1..Len(debounced.calls) :
             /\ DebounceBurstEnd(i)
             /\ debounced.execs[k] =
                    [ at |-> debounced.calls[i].at + debounced.delay,
                      args |-> debounced.calls[i].args ]
    /\ \A k, m \in 1..Len(debounced.execs) :
         debounced.execs[k].at = debounced.execs[m].at => k = m

-----------------------------------------------------------------------------
(* PAINT_DATA fields: resolvePath and AUDIN.initPaintData *)

\* A JavaScript object: f maps its own keys to their values
PObj(f) == [ t |-> "pobj", f |-> f ]

NoKeys == [ k \in {} |-> Null ]

\* path.split('.')
RECURSIVE SplitDots(_, _)
SplitDots(s, cur) ==
    IF s = "" THEN << cur >>
    ELSE IF SubSeq(s, 1, 1) = "." THEN << cur >> \o SplitDots(SubSeq(s, 2, Len(s)), "")
    ELSE SplitDots(SubSeq(s, 2, Len(s)), cur \o SubSeq(s, 1, 1))

\* The value is falsy: undefined, null, 0 or ''
PaintFalsy(v) ==
    \/ v.t \in { "undef", "null" }
    \/ v.t = "num" /\ v.v = 0
    \/ v.t = "str" /\ v.v = ""

\* acc[part] of a truthy acc: an own key of an object, the length of a
\* string, undefined otherwise
PaintGet(acc, part) ==
    CASE acc.t = "pobj" -> IF part \in DOMAIN acc.f THEN acc.f[part] ELSE Undef
      [] acc.t = "str" -> IF part = "length" THEN Num(10 * Len(acc.v)) ELSE Undef
      [] OTHER -> Undef

\* acc && acc[part]
PaintStep(acc, part) ==
    IF PaintFalsy(acc) THEN acc ELSE PaintGet(acc, part)

\* parts.reduce(function (acc, part) { ... }, obj)
RECURSIVE PaintReduce(_, _)
PaintReduce(acc, parts) ==
    IF parts = << >> THEN acc
    ELSE PaintReduce(PaintStep(acc, Head(parts)), Tail(parts))

resolvePath(obj, dotted) == PaintReduce(obj, SplitDots(dotted, ""))

\* value.toLocaleString('pt-BR') of a number held in tenths
PaintNumberText(n) ==
    IF n % 10 = 0 THEN GroupPtBR(n \div 10)
    ELSE GroupPtBR(n \div 10) \o "," \o ToString(n % 10)

\* What el.textContent = value stores
PaintTextOf(value) ==
    CASE value.t = "num" -> PaintNumberText(value.v)
      [] value.t = "str" -> value.v
      [] value.t = "null" -> ""
      [] value.t = "pobj" -> "[object Object]"

\* The forEach over the [data-paint-field] elements, from element el on
RECURSIVE PaintPopulate(_, _, _)
PaintPopulate(st, data, el) ==
    IF el > Len(st.fields) THEN st
    ELSE LET value == resolvePath(data, st.fields[el])
             wrote == IF value # Undef
                      THEN [ st EXCEPT !.text[el] = PaintTextOf(value) ]
                      ELSE st
         IN  PaintPopulate(wrote, data, el + 1)

PaintTitle(ano) ==
    "PAINT " \o ToStr(ano) \o " - Plano Anual de Auditoria Interna - AUDIN/UFAM"

\* AUDIN.initPaintData(arg)
initPaintData(st, arg) ==
    LET data == IF PaintFalsy(arg) THEN st.global ELSE arg IN
    IF PaintFalsy(data) THEN [ st EXCEPT !.last = [ ran |-> FALSE, data |-> data ] ]
    ELSE LET filled == PaintPopulate(st, data, 1)
             ano == PaintGet(data, "ano")
         IN  [ filled EXCEPT
                 !.title = IF PaintFalsy(ano) THEN @ ELSE PaintTitle(ano),
                 !.last = [ ran |-> TRUE, data |-> data ] ]

\* The values a key of the data holds
PaintLeaves == { Null, Num(0), Num(12340), Str(""), Str("2026") }

PaintKpis ==
    PaintLeaves \cup { PObj(NoKeys) }
        \cup { PObj([ k \in { "total" } |-> l ]) : l \in PaintLeaves }

\* window.PAINT_DATA or the argument: not given, or an object with
\* kpis and / or ano
PaintDatas ==
    { Undef, PObj(NoKeys), PObj([ k \in { "ano" } |-> Num(20260) ]) }
        \cup { PObj([ k \in { "kpis" } |-> v ]) : v \in PaintKpis }
        \cup { PObj([ k \in { "kpis", "ano" } |->
                        IF k = "kpis" THEN v ELSE Num(20260) ]) : v \in PaintKpis }

\* data-paint-field of an element
PaintPaths == { "ano", "kpis", "kpis.total", "kpis.total.length" }

PaintStaticText == "--"

PaintInitData(arg) ==
    /\ ~paintData.last.ran
    /\ paintData' = initPaintData(paintData, arg)
    /\ UNCHANGED notPaintData

\* The page is loaded again
PaintReload ==
    /\ paintData.last.ran
    /\ paintData' =
         [ paintData EXCEPT
             !.text = [ el \in 1..Len(paintData.fields) |-> PaintStaticText ],
             !.title = "PAINT",
             !.last = [ ran |-> FALSE, data |-> Undef ] ]
    /\ UNCHANGED notPaintData

InitPaintData ==
    /\ \E n \in 0..MaxPaintFields, g \in PaintDatas :
       \E fields \in [ 1..n -> PaintPaths ] :
         paintData = [ global |-> g, fields |-> fields,
                       text |-> [ el \in 1..n |-> PaintStaticText ],
                       title |-> "PAINT",
                       last |-> [ ran |-> FALSE, data |-> Undef ] ]
    /\ CoreOff /\ WidgetOff /\ DebouncedOff /\ ScrollSpyOff

NextPaintData ==
    \/ \E arg \in PaintDatas : PaintInitData(arg)
    \/ PaintReload

SpecPaintData == InitPaintData /\ [][NextPaintData]_vars

\* Every level of the path holds an object with the next key
RECURSIVE PaintPathHeld(_, _)
PaintPathHeld(v, parts) ==
    \/ parts = << >>
    \/ /\ v.t = "pobj"
       /\ Head(parts) \in DOMAIN v.f
       /\ PaintPathHeld(v.f[Head(parts)], Tail(parts))

\* C23: resolvePath(obj, path) returns undefined whenever any intermediate
\* level of the dotted path does not hold an object with the next key, and
\* AUDIN.initPaintData leaves the text of a [data-paint-field] element
\* unchanged exactly when its path resolves to undefined.
C23_BrokenPathUndefinedTextKept ==
    paintData.last.ran =>
        \A el \in 1..Len(paintData.fields) :
            LET value == resolvePath(paintData.last.data, paintData.fields[el]) IN
            /\ ~PaintPathHeld(paintData.last.data,
                              SplitDots(paintData.fields[el], "")) =>
                  value = Undef
            /\ paintData.text[el] = PaintStaticText <=> value = Undef

-----------------------------------------------------------------------------
(* Report scroll spy: AUDIN.initScrollSpy and onScroll *)

\* var scrollPos = window.scrollY + 100
SpyOffset == 100

SpyPositions == { p \in 0..MaxSpyPos : p % SpyStep = 0 }

\* The sections array: the links whose href has a fragment that names an
\* element (target # 0), in list order, from link l on
RECURSIVE SpySections(_, _)
SpySections(st, l) ==
    IF l > Len(st.links) THEN << >>
    ELSE (IF st.links[l] # 0 THEN << l >> ELSE << >>) \o SpySections(st, l + 1)

\* A loop that tests offsetTop < scrollPos
RECURSIVE SpyCurrentStrict(_, _, _, _)
SpyCurrentStrict(st, sections, i, current) ==
    IF i > Len(sections) THEN current
    ELSE SpyCurrentStrict(st, sections, i + 1,
                    IF st.top[st.links[sections[i]]] < st.scrollY + SpyOffset
                    THEN sections[i] ELSE current)

\* The for loop of onScroll: the link of the section it ends on
RECURSIVE SpyCurrent(_, _, _, _)
SpyCurrent(st, sections, i, current) ==
    IF i > Len(sections) THEN current
    ELSE SpyCurrent(st, sections, i + 1,
                    IF st.top[st.links[sections[i]]] <= st.scrollY + SpyOffset
                    THEN sections[i] ELSE current)

\* onScroll(); handled tells what called it last ("none": the layout has
\* changed since)
onScroll(st, by) ==
    LET sections == SpySections(st, 1)
        current == SpyCurrent(st, sections, 1, sections[1])
    IN  [ st EXCEPT !.active = [ l \in 1..Len(st.links) |-> l = current ],
                    !.handled = by ]

\* AUDIN.initScrollSpy(document) on the markup
initScrollSpy(st) ==
    IF SpySections(st, 1) = << >> THEN st
    ELSE [ onScroll(st, "init") EXCEPT !.listening = TRUE ]

\* The window is scrolled to y
SpyScroll(y) ==
    /\ y # scrollSpy.scrollY
    /\ scrollSpy' =
         IF scrollSpy.listening
         THEN onScroll([ scrollSpy EXCEPT !.scrollY = y ], "scroll")
         ELSE [ scrollSpy EXCEPT !.scrollY = y ]
    /\ UNCHANGED notScrollSpy

\* The layout changes: section k moves to offsetTop p, and no scroll event
\* follows from it
SpyReflow(k, p) ==
    /\ k \in DOMAIN scrollSpy.top
    /\ p # scrollSpy.top[k]
    /\ scrollSpy' = [ scrollSpy EXCEPT !.top[k] = p, !.handled = "none" ]
    /\ UNCHANGED notScrollSpy

InitScrollSpy ==
    /\ \E n \in 0..MaxSpyLinks, m \in 0..MaxSpySections :
       \E links \in [ 1..n -> 0..m ], top \in [ 1..m -> SpyPositions ],
          active \in [ 1..n -> BOOLEAN ], y \in SpyPositions :
         scrollSpy = initScrollSpy([ links |-> links, top |-> top,
                                     scrollY |-> y, active |-> active,
                                     listening |-> FALSE, handled |-> "none" ])
    /\ CoreOff /\ WidgetOff /\ DebouncedOff /\ PaintDataOff

NextScrollSpy ==
    \/ \E y \in SpyPositions : SpyScroll(y)
    \/ \E k \in 1..MaxSpySections, p \in SpyPositions : SpyReflow(k, p)

SpecScrollSpy == InitScrollSpy /\ [][NextScrollSpy]_vars

\* The links that have a section
SpyLinked == { l \in 1..Len(scrollSpy.links) : scrollSpy.links[l] # 0 }

\* The links whose section's offsetTop is at most scrollY + 100
SpyReached ==
    { l \in SpyLinked :
        scrollSpy.top[scrollSpy.links[l]] <= scrollSpy.scrollY + SpyOffset }

SpyMax(S) == CHOOSE l \in S : \A k \in S : k <= l

SpyMin(S) == CHOOSE l \in S : \A k \in S : l <= k

\* C24: after every scroll event handled by the report scroll spy, exactly
\* one nav link carries the active class: the link of the last section in
\* list order whose offsetTop is at most scrollY + 100, or the first
\* section's link when no section satisfies that.
C24_ExactlyOneActiveLink ==
    (scrollSpy.listening /\ scrollSpy.handled = "scroll") =>
        LET expected == IF SpyReached = {} THEN SpyMin(SpyLinked)
                        ELSE SpyMax(SpyReached)
        IN  \A l \in 1..Len(scrollSpy.links) :
                scrollSpy.active[l] <=> l = expected

C24_Witness ==
    /\ scrollSpy.listening /\ scrollSpy.handled = "scroll"
    /\ Len(scrollSpy.links) = 2
    /\ scrollSpy.links = << 1, 2 >>
    /\ scrollSpy.top[1] = 200
    /\ scrollSpy.top[2] = 100
    /\ scrollSpy.scrollY = 0
    /\ scrollSpy.active = << FALSE, TRUE >>

=============================================================================
